---- MODULE Spec2Model ----
(***************************************************************************)
(* Model of docusaurus-plugin-llms: file collection, pattern based         *)
(* selection and ordering, per-file loading, the files written by the      *)
(* targets of a run, full-content rendering with section header            *)
(* de-duplication, URL path transformation and partial resolution.         *)
(*                                                                         *)
(* A path is a sequence of segments ("docs/a/1.md" is <<"docs","a",        *)
(* "1.md">>); a glob pattern is a sequence of segments in which "*" is a   *)
(* one-segment wildcard and "**" a globstar.  Text that the code inspects  *)
(* character by character (titles, folder names, headers, file names, URL  *)
(* paths) is a sequence of one-character strings.                          *)
(***************************************************************************)
EXTENDS Integers, Sequences, FiniteSets, TLC

VARIABLES
    pc,             \* position of the run
    docsDir,        \* options.docsDir
    includeBlog,    \* options.includeBlog
    ignoreFiles,    \* options.ignoreFiles (global ignore patterns)
    fsDocs,         \* files below siteDir/docs, in directory-walk order
    fsBlog,         \* files below siteDir/blog, in directory-walk order
    missingRoots,   \* root directories that do not exist (fs.access throws)
    allDocFiles,    \* result of collectDocFiles
    target,         \* arguments of the current processFilesWithPatterns call
    filesToProcess, \* processFilesWithPatterns: ordered selection
    idx,            \* processFilesWithPatterns: loop position in filesToProcess
    kind,           \* what reading each file gives (frontmatter draft / read error)
    processedDocs,  \* processFilesWithPatterns: DocInfo list built so far
    outFiles,       \* writes to outDir: name, mode and source paths of the documents
    rdocs,          \* generateLLMFile: the docs argument (title, path)
    headers,        \* generateLLMFile: section headers emitted, in order
    options,        \* options of the targets, as used by the whole-run step
    previous,       \* number of the current run and the outDir left by the run before
    urlPath,        \* applyPathTransformations: the urlPath argument
    pathTransformation, \* applyPathTransformations: ignorePaths and addPaths
    transformedPath, \* applyPathTransformations: the returned path
    markdownContent, \* resolvePartialImports: the content argument, as tokens
    partialFiles,   \* what reading each partial file gives
    resolved,       \* resolvePartialImports: the returned text, as tokens
    build,          \* postBuild: the failing operation, the console and the promise
    llmFile,        \* generateLLMFile: the version argument and the text written
    markdownFiles,  \* generateIndividualMarkdownFiles: docs, usedPaths, files written
    toc,            \* generateLLMFile (links only): descriptions and tocItems
    cleaned,        \* cleanMarkdownContent: the lines in and the lines out
    partialRun,     \* resolvePartialImports, step by step: bindings left, files read
    docUrl          \* processMarkdownFile: siteConfig, the route and fullUrl

vars == <<pc, docsDir, includeBlog, ignoreFiles, fsDocs, fsBlog, missingRoots, allDocFiles,
          target, filesToProcess, idx, kind, processedDocs, outFiles,
          rdocs, headers, options, previous,
          urlPath, pathTransformation, transformedPath,
          markdownContent, partialFiles, resolved,
          build, llmFile, markdownFiles, toc, cleaned, partialRun, docUrl>>

collectVars ==
    <<docsDir, includeBlog, ignoreFiles, fsDocs, fsBlog, missingRoots, allDocFiles>>
renderVars == <<rdocs, headers>>
runVars == <<options, previous>>
pathVars == <<urlPath, pathTransformation, transformedPath>>
partialVars == <<markdownContent, partialFiles, resolved>>
pureVars == <<pathVars, partialVars>>
lateVars == <<build, llmFile, markdownFiles, toc, cleaned, partialRun, docUrl>>
coreVars ==
    <<collectVars, target, filesToProcess, idx, kind, processedDocs, outFiles,
      renderVars, runVars, pureVars>>

----------------------------------------------------------------------------
(* Bounds *)

MaxFiles == 3
MaxOrder == 2
MaxDocs == 3
MaxCustom == 1
MaxSegs == 3
MaxRules == 2
MaxTokens == 3

----------------------------------------------------------------------------
(* Generic helpers *)

RECURSIVE SeqFilter(_, _)
SeqFilter(s, keep) ==
    IF s = <<>> THEN <<>>
    ELSE IF Head(s) \in keep THEN <<Head(s)>> \o SeqFilter(Tail(s), keep)
    ELSE SeqFilter(Tail(s), keep)

Range(s) == {s[i] : i \in 1..Len(s)}

Distinct(s) == \A i, j \in 1..Len(s) : i # j => s[i] # s[j]

SeqsUpTo(S, n) == UNION {[1..k -> S] : k \in 0..n}

----------------------------------------------------------------------------
(* The file tree and the glob patterns used as inputs *)

DocsTree ==
    { <<"docs", "a", "1.md">>, <<"docs", "a", "2.md">>,
      <<"docs", "b", "1.md">>, <<"docs", "b", "2.md">> }

BlogTree == { <<"blog", "a", "1.md">> }

\* A tree with a same-named .md / .mdx pair.
MdxTree ==
    { <<"docs", "a", "1.md">>, <<"docs", "a", "1.mdx">>, <<"docs", "b", "1.md">> }

\* A tree with partial files, a directory named like a partial and a file that
\* is not markdown.
PartialTree ==
    { <<"docs", "a", "1.md">>, <<"docs", "a", "_p.mdx">>, <<"docs", "a", "n.txt">>,
      <<"docs", "_d", "1.md">>, <<"docs", "_d", "_p.md">> }

AllPaths == DocsTree \cup BlogTree \cup MdxTree \cup PartialTree

\* The characters of the file names above.
NameChars ==
    "1.md" :> <<"1", ".", "m", "d">> @@
    "2.md" :> <<"2", ".", "m", "d">> @@
    "1.mdx" :> <<"1", ".", "m", "d", "x">> @@
    "_p.md" :> <<"_", "p", ".", "m", "d">> @@
    "_p.mdx" :> <<"_", "p", ".", "m", "d", "x">> @@
    "n.txt" :> <<"n", ".", "t", "x", "t">>

NameOf(chars) == CHOOSE n \in DOMAIN NameChars : NameChars[n] = chars

\* String.prototype.startsWith / endsWith
StartsWith(str, prefix) ==
    Len(str) >= Len(prefix) /\ SubSeq(str, 1, Len(prefix)) = prefix

EndsWith(str, suffix) ==
    Len(str) >= Len(suffix) /\ SubSeq(str, Len(str) - Len(suffix) + 1, Len(str)) = suffix

DotMd == <<".", "m", "d">>
DotMdx == <<".", "m", "d", "x">>

\* A directory walk lists the files of one directory next to each other.
Grouped(s) ==
    \A i, j, k \in 1..Len(s) :
        (i < j /\ j < k /\ SubSeq(s[i], 1, 2) = SubSeq(s[k], 1, 2))
            => SubSeq(s[j], 1, 2) = SubSeq(s[i], 1, 2)

Walks(tree) == {s \in SeqsUpTo(tree, MaxFiles) : Distinct(s) /\ Grouped(s)}

PatA == <<"docs", "a", "*">>
PatB == <<"docs", "b", "*">>
PatOne == <<"**", "1.md">>
PatBaseTwo == <<"2.md">>
PatDirA == <<"a">>

OrderPatterns == {PatA, PatB, PatOne, PatBaseTwo}

----------------------------------------------------------------------------
(* minimatch(relativePath, pattern, { matchBase: true }) *)

RECURSIVE MatchOne(_, _)
MatchOne(f, p) ==
    IF p = <<>> THEN f = <<>>
    ELSE IF f = <<>> THEN FALSE
    ELSE IF Head(p) = "**"
        THEN IF Len(p) = 1 THEN TRUE
             ELSE \E k \in 0..Len(f) : MatchOne(SubSeq(f, k + 1, Len(f)), Tail(p))
    ELSE IF Head(p) = "*" THEN MatchOne(Tail(f), Tail(p))
    ELSE Head(f) = Head(p) /\ MatchOne(Tail(f), Tail(p))

Minimatch(f, p) ==
    IF Len(p) = 1 /\ f # <<>> THEN MatchOne(<<f[Len(f)]>>, p)
    ELSE MatchOne(f, p)

MatchesAny(f, patterns) == \E i \in 1..Len(patterns) : Minimatch(f, patterns[i])

----------------------------------------------------------------------------
(* utils.ts: shouldIgnoreFile, readMarkdownFiles; generator.ts: collectDocFiles *)

ShouldIgnoreFile(f, ignorePatterns) ==
    IF Len(ignorePatterns) = 0 THEN FALSE
    ELSE MatchesAny(f, ignorePatterns)

\* entry.name.endsWith('.md') || entry.name.endsWith('.mdx')
IsMarkdownName(name) ==
    EndsWith(NameChars[name], DotMd) \/ EndsWith(NameChars[name], DotMdx)

\* Every entry below the root, directories included, is tested against the
\* ignore patterns on the way down to a file.
NotIgnored(f, ignorePatterns) ==
    \A k \in 2..Len(f) : ~ShouldIgnoreFile(SubSeq(f, 1, k), ignorePatterns)

\* Variant: files named like partials are collected as well.
ReadMarkdownFilesWithPartials(walk, ignorePatterns) ==
    SeqFilter(walk,
        {f \in Range(walk) :
            NotIgnored(f, ignorePatterns) /\ IsMarkdownName(f[Len(f)])})

ReadMarkdownFiles(walk, ignorePatterns) ==
    SeqFilter(walk,
        {f \in Range(walk) :
            /\ NotIgnored(f, ignorePatterns)
            /\ IsMarkdownName(f[Len(f)])
            /\ ~StartsWith(NameChars[f[Len(f)]], <<"_">>)})

RootWalk(dir, wd, wb) == IF dir = "docs" THEN wd ELSE wb

\* Variant: a missing docs root ends the collection.
RootFilesAbort(dir, ign, wd, wb, missing) ==
    IF "docs" \in missing THEN <<>> ELSE ReadMarkdownFiles(RootWalk(dir, wd, wb), ign)

\* try { await fs.access(root); files = await readMarkdownFiles(...) } catch { warn }
RootFiles(dir, ign, wd, wb, missing) ==
    IF dir \in missing THEN <<>> ELSE ReadMarkdownFiles(RootWalk(dir, wd, wb), ign)

CorpusFiles(dd, ib, ign, wd, wb, missing) ==
    RootFiles(dd, ign, wd, wb, missing)
    \o (IF ib THEN RootFiles("blog", ign, wd, wb, missing) ELSE <<>>)

CollectDocFiles(dd, ib, ign, wd, wb, missing) ==
    /\ pc = "start"
    /\ docsDir' = dd
    /\ includeBlog' = ib
    /\ ignoreFiles' = ign
    /\ fsDocs' = wd
    /\ fsBlog' = wb
    /\ missingRoots' = missing
    /\ allDocFiles' = CorpusFiles(dd, ib, ign, wd, wb, missing)
    /\ pc' = "collected"
    /\ UNCHANGED <<target, filesToProcess, idx, kind, processedDocs, outFiles>>
    /\ UNCHANGED renderVars
    /\ UNCHANGED runVars
    /\ UNCHANGED pureVars
    /\ UNCHANGED lateVars

----------------------------------------------------------------------------
(* processor.ts: processFilesWithPatterns, selection and ordering *)

IncludeFilter(files, includePatterns) ==
    IF Len(includePatterns) > 0
        THEN SeqFilter(files, {f \in Range(files) : MatchesAny(f, includePatterns)})
        ELSE files

IgnoreFilter(files, ignorePatterns) ==
    IF Len(ignorePatterns) > 0
        THEN SeqFilter(files, {f \in Range(files) : ~MatchesAny(f, ignorePatterns)})
        ELSE files

\* Variant: the include result shields a file from the ignore patterns.
FilteredFilesIncludeWins(files, includePatterns, ignorePatterns) ==
    IF Len(includePatterns) > 0
        THEN IncludeFilter(files, includePatterns)
        ELSE IgnoreFilter(files, ignorePatterns)

FilteredFiles(files, includePatterns, ignorePatterns) ==
    IgnoreFilter(IncludeFilter(files, includePatterns), ignorePatterns)

\* One pass of the loop over orderPatterns: the files of the pattern that are
\* not in matchedFiles are pushed, then added to matchedFiles.
MatchingFiles(filtered, pattern, matchedFiles) ==
    SeqFilter(filtered,
        {f \in Range(filtered) : Minimatch(f, pattern) /\ f \notin matchedFiles})

\* Variant: later patterns are emitted in front of earlier ones.
RECURSIVE OrderLoopPrepend(_, _, _, _)
OrderLoopPrepend(filtered, orderPatterns, out, matchedFiles) ==
    IF orderPatterns = <<>> THEN [out |-> out, matchedFiles |-> matchedFiles]
    ELSE LET matching == SeqFilter(filtered,
                            {f \in Range(filtered) :
                                Minimatch(f, Head(orderPatterns)) /\ f \notin matchedFiles})
         IN OrderLoopPrepend(filtered, Tail(orderPatterns), matching \o out,
                             matchedFiles \cup Range(matching))

RECURSIVE OrderLoop(_, _, _, _)
OrderLoop(filtered, orderPatterns, out, matchedFiles) ==
    IF orderPatterns = <<>> THEN [out |-> out, matchedFiles |-> matchedFiles]
    ELSE LET matching == MatchingFiles(filtered, Head(orderPatterns), matchedFiles)
         IN OrderLoop(filtered, Tail(orderPatterns), out \o matching,
                      matchedFiles \cup Range(matching))

RemainingFiles(filtered, matchedFiles) ==
    SeqFilter(filtered, {f \in Range(filtered) : f \notin matchedFiles})

\* Variant: the unmatched files are appended whatever includeUnmatched says.
SelectFilesAlwaysAppend(files, includePatterns, ignorePatterns, orderPatterns, includeUnmatched) ==
    LET filtered == FilteredFiles(files, includePatterns, ignorePatterns)
    IN IF Len(orderPatterns) > 0
          THEN LET r == OrderLoop(filtered, orderPatterns, <<>>, {})
               IN r.out \o RemainingFiles(filtered, r.matchedFiles)
          ELSE filtered

\* Variant: the ordering branch is taken for an empty order list as well.
SelectFilesNoEmptyBranch(files, includePatterns, ignorePatterns, orderPatterns, includeUnmatched) ==
    LET filtered == FilteredFiles(files, includePatterns, ignorePatterns)
        r == OrderLoop(filtered, orderPatterns, <<>>, {})
    IN IF includeUnmatched
          THEN r.out \o RemainingFiles(filtered, r.matchedFiles)
          ELSE r.out

SelectFiles(files, includePatterns, ignorePatterns, orderPatterns, includeUnmatched) ==
    LET filtered == FilteredFiles(files, includePatterns, ignorePatterns)
    IN IF Len(orderPatterns) > 0
          THEN LET r == OrderLoop(filtered, orderPatterns, <<>>, {})
               IN IF includeUnmatched
                     THEN r.out \o RemainingFiles(filtered, r.matchedFiles)
                     ELSE r.out
          ELSE filtered

\* The synchronous head of processFilesWithPatterns, up to the first await.
ProcessFilesWithPatterns(type, includePatterns, ignorePatterns, orderPatterns, includeUnmatched) ==
    /\ pc = "collected"
    /\ target' = [type |-> type, include |-> includePatterns, ignore |-> ignorePatterns,
                  order |-> orderPatterns, unmatched |-> includeUnmatched]
    /\ filesToProcess' = SelectFiles(allDocFiles, includePatterns, ignorePatterns,
                                     orderPatterns, includeUnmatched)
    /\ idx' = 1
    /\ processedDocs' = <<>>
    /\ pc' = "loading"
    /\ UNCHANGED <<kind, outFiles>>
    /\ UNCHANGED collectVars
    /\ UNCHANGED renderVars
    /\ UNCHANGED runVars
    /\ UNCHANGED pureVars
    /\ UNCHANGED lateVars

\* generateStandardLLMFiles: no include patterns, no ignore patterns beyond the
\* global ones applied during collection.
StandardTarget(includeOrder, includeUnmatchedLast) ==
    ProcessFilesWithPatterns("standard", <<>>, <<>>, includeOrder, includeUnmatchedLast)

\* generateCustomLLMFiles: global ignores are combined with the custom ones.
CustomTarget(includePatterns, ignorePatterns, orderPatterns, includeUnmatchedLast) ==
    ProcessFilesWithPatterns("custom", includePatterns, ignoreFiles \o ignorePatterns,
                             orderPatterns, includeUnmatchedLast)

----------------------------------------------------------------------------
(* processor.ts: processMarkdownFile and the loading loop *)

\* What reading and parsing a file gives: a read/parse error, or the value of
\* the frontmatter key draft.
FileKinds == {"readError", "bool:true", "bool:false", "string:true", "absent"}

\* Variant: any truthy draft value excludes the file.
IsDraftTruthy(draft) == draft \in {"bool:true", "string:true"}

\* data.draft === true
IsDraft(draft) == draft = "bool:true"

NoMd == [rel |-> <<>>, n |-> 0]

ProcessMarkdownFile(f, content) ==
    IF content = "readError" THEN [tag |-> "throw"]
    ELSE IF IsDraft(content) THEN [tag |-> "null"]
    ELSE [tag |-> "doc", doc |-> [src |-> f, draft |-> content, md |-> NoMd]]

\* Variant: a failed file discards the documents loaded before it.
PushDocErrorResets(docs, r) ==
    IF r.tag = "doc" THEN Append(docs, r.doc)
    ELSE IF r.tag = "throw" THEN <<>>
    ELSE docs

\* Variant: results are collected most recent first.
PushDocFront(docs, r) ==
    IF r.tag = "doc" THEN <<r.doc>> \o docs ELSE docs

\* try { docInfo = await processMarkdownFile(...); if (docInfo !== null) push }
\* catch { warn }
PushDoc(docs, r) ==
    IF r.tag = "doc" THEN Append(docs, r.doc) ELSE docs

\* One iteration of the loop over filesToProcess.
LoadFile(content) ==
    /\ pc = "loading"
    /\ idx <= Len(filesToProcess)
    /\ LET f == filesToProcess[idx]
       IN /\ kind[f] \in {"unread", content}
          /\ kind' = [kind EXCEPT ![f] = content]
          /\ processedDocs' = PushDoc(processedDocs, ProcessMarkdownFile(f, content))
    /\ idx' = idx + 1
    /\ UNCHANGED <<pc, target, filesToProcess, outFiles>>
    /\ UNCHANGED collectVars
    /\ UNCHANGED renderVars
    /\ UNCHANGED runVars
    /\ UNCHANGED pureVars
    /\ UNCHANGED lateVars

----------------------------------------------------------------------------
(* generator.ts: generateIndividualMarkdownFiles, generateLLMFile and the  *)
(* tails of generateStandardLLMFiles / generateCustomLLMFiles              *)

\* .replace(/\.mdx?$/, '.md')
EnsureMdExtension(name) ==
    IF EndsWith(name, DotMdx) THEN SubSeq(name, 1, Len(name) - 1) ELSE name

\* doc.path with an .md extension and without the leading docsDir segment
RelativeMdPath(path, dd) ==
    LET md == [path EXCEPT ![Len(path)] = NameOf(EnsureMdExtension(NameChars[path[Len(path)]]))]
    IN IF Len(md) > 1 /\ md[1] = dd THEN Tail(md) ELSE md

\* Variant: a name that a file of outDir already has is avoided as well.
RECURSIVE UniquePathAvoidsExisting(_, _, _)
UniquePathAvoidsExisting(rel, usedPaths, counter) ==
    IF [rel |-> rel, n |-> counter] \in usedPaths \cup {o.name : o \in outFiles}
        THEN UniquePathAvoidsExisting(rel, usedPaths, counter + 1)
        ELSE [rel |-> rel, n |-> counter]

\* while (usedPaths.has(uniquePath)) { counter++; uniquePath = base-counter.ext }
RECURSIVE UniquePath(_, _, _)
UniquePath(rel, usedPaths, counter) ==
    IF [rel |-> rel, n |-> counter] \in usedPaths
        THEN UniquePath(rel, usedPaths, counter + 1)
        ELSE [rel |-> rel, n |-> counter]

RECURSIVE IndividualMarkdownFiles(_, _, _)
IndividualMarkdownFiles(docs, dd, usedPaths) ==
    IF docs = <<>> THEN <<>>
    ELSE LET u == UniquePath(RelativeMdPath(Head(docs).src, dd), usedPaths, 1)
         IN <<[Head(docs) EXCEPT !.md = u]>>
            \o IndividualMarkdownFiles(Tail(docs), dd, usedPaths \cup {u})

DocSources(docs) == [i \in 1..Len(docs) |-> docs[i].src]

StandaloneFiles(docs) ==
    {[name |-> docs[i].md, mode |-> "standalone", docs |-> <<docs[i].src>>] :
        i \in 1..Len(docs)}

\* path.join(outDir, filename): an output path without a collision counter
OutName(filename) == [rel |-> <<filename>>, n |-> 1]

LLMFile(filename, fullContent, docs) ==
    [name |-> OutName(filename), mode |-> IF fullContent THEN "full" ELSE "links",
     docs |-> DocSources(docs)]

\* What a target does with its loaded documents: the updated documents and the
\* files written.  The standard target writes its two artifacts whatever the
\* number of documents; a custom target writes only when it has documents.
WrittenFiles(type, filename, loaded, generateMarkdownFiles, fullContent, dd) ==
    LET withMd == generateMarkdownFiles /\ Len(loaded) > 0
        docs == IF withMd THEN IndividualMarkdownFiles(loaded, dd, {}) ELSE loaded
        md == IF withMd THEN StandaloneFiles(docs) ELSE {}
    IN [docs |-> docs,
        files |->
            IF type = "standard"
                THEN md \cup {LLMFile("llms.txt", FALSE, docs),
                              LLMFile("llms-full.txt", TRUE, docs)}
            ELSE IF Len(loaded) > 0
                THEN md \cup {LLMFile(filename, fullContent, docs)}
            ELSE {}]

\* Everything after the loading loop of the current target.
GenerateFiles(generateMarkdownFiles, fullContent) ==
    /\ pc = "loading"
    /\ idx > Len(filesToProcess)
    /\ LET w == WrittenFiles(target.type, "custom.txt", processedDocs,
                             generateMarkdownFiles, fullContent, docsDir)
       IN /\ processedDocs' = w.docs
          /\ outFiles' = w.files
    /\ pc' = "done"
    /\ UNCHANGED <<target, filesToProcess, idx, kind>>
    /\ UNCHANGED collectVars
    /\ UNCHANGED renderVars
    /\ UNCHANGED runVars
    /\ UNCHANGED pureVars
    /\ UNCHANGED lateVars

----------------------------------------------------------------------------
(* index.ts: postBuild after the collection, all targets in one step *)

\* The loading loop of processFilesWithPatterns run to its end.
RECURSIVE LoadAll(_, _, _)
LoadAll(files, content, docs) ==
    IF files = <<>> THEN docs
    ELSE LoadAll(Tail(files), content,
                 PushDoc(docs, ProcessMarkdownFile(Head(files), content[Head(files)])))

RunTarget(type, filename, files, includePatterns, ignorePatterns, orderPatterns, includeUnmatched, fullContent, content, generateMarkdownFiles, dd) ==
    WrittenFiles(type, filename,
                 LoadAll(SelectFiles(files, includePatterns, ignorePatterns,
                                     orderPatterns, includeUnmatched), content, <<>>),
                 generateMarkdownFiles, fullContent, dd)

\* for (const customFile of customLLMFiles) { ... }
RECURSIVE CustomWrites(_, _, _, _, _, _)
CustomWrites(customLLMFiles, files, ign, content, generateMarkdownFiles, dd) ==
    IF customLLMFiles = <<>> THEN {}
    ELSE LET c == Head(customLLMFiles)
         IN RunTarget("custom", c.filename, files, c.include, ign \o c.ignore, c.order,
                      c.unmatched, c.full, content, generateMarkdownFiles, dd).files
            \cup CustomWrites(Tail(customLLMFiles), files, ign, content,
                              generateMarkdownFiles, dd)

StandardWrites(files, content, opts, dd) ==
    RunTarget("standard", "llms.txt", files, <<>>, <<>>, opts.includeOrder,
              opts.includeUnmatchedLast, FALSE, content, opts.generateMarkdownFiles, dd)

\* Every write of one run over a non-empty corpus.
RunWrites(files, ign, content, opts, dd) ==
    StandardWrites(files, content, opts, dd).files
    \cup CustomWrites(opts.customLLMFiles, files, ign, content,
                      opts.generateMarkdownFiles, dd)

\* writeFile replaces a file of the same name; files that the run does not
\* write stay as they are.
Overwrite(dir, writes) ==
    {o \in dir : \A w \in writes : w.name # o.name} \cup writes

\* generateStandardLLMFiles followed by generateCustomLLMFiles; outFiles gets
\* every write of the run.
PostBuildTargets(content, includeOrder, includeUnmatchedLast, generateMarkdownFiles, customLLMFiles) ==
    /\ pc = "collected"
    /\ allDocFiles # <<>>
    /\ options' = [includeOrder |-> includeOrder,
                   includeUnmatchedLast |-> includeUnmatchedLast,
                   generateMarkdownFiles |-> generateMarkdownFiles,
                   customLLMFiles |-> customLLMFiles]
    /\ processedDocs' = StandardWrites(allDocFiles, content, options', docsDir).docs
    /\ outFiles' = Overwrite(outFiles,
                             RunWrites(allDocFiles, ignoreFiles, content, options', docsDir))
    /\ target' = [type |-> "standard", include |-> <<>>, ignore |-> <<>>,
                  order |-> includeOrder, unmatched |-> includeUnmatchedLast]
    /\ filesToProcess' = SelectFiles(allDocFiles, <<>>, <<>>, includeOrder,
                                     includeUnmatchedLast)
    /\ idx' = Len(filesToProcess') + 1
    /\ kind' = content
    /\ pc' = "done"
    /\ UNCHANGED previous
    /\ UNCHANGED collectVars
    /\ UNCHANGED renderVars
    /\ UNCHANGED pureVars
    /\ UNCHANGED lateVars

\* postBuild once more, with the file tree, the file contents and the options
\* of the finished run and the outDir it left.
PostBuildAgain ==
    /\ pc = "done"
    /\ previous.run = 1
    /\ LET files == CorpusFiles(docsDir, includeBlog, ignoreFiles, fsDocs, fsBlog,
                                missingRoots)
       IN /\ allDocFiles' = files
          /\ outFiles' =
                IF files = <<>> THEN outFiles
                ELSE Overwrite(outFiles,
                               RunWrites(files, ignoreFiles, kind, options, docsDir))
          /\ processedDocs' =
                IF files = <<>> THEN processedDocs
                ELSE StandardWrites(files, kind, options, docsDir).docs
    /\ previous' = [run |-> 2, out |-> outFiles]
    /\ UNCHANGED <<pc, target, filesToProcess, idx, kind, options>>
    /\ UNCHANGED <<docsDir, includeBlog, ignoreFiles, fsDocs, fsBlog, missingRoots>>
    /\ UNCHANGED renderVars
    /\ UNCHANGED pureVars
    /\ UNCHANGED lateVars

----------------------------------------------------------------------------
(* generator.ts: generateLLMFile, full-content section headers *)

LowerCase ==
    [c \in {"T", "A", "B"} |-> CASE c = "T" -> "t" [] c = "A" -> "a" [] c = "B" -> "b"]

UpperCase ==
    [c \in {"t", "a", "b"} |-> CASE c = "t" -> "T" [] c = "a" -> "A" [] c = "b" -> "B"]

\* String.prototype.toLowerCase
ToLowerCase(str) ==
    [i \in 1..Len(str) |-> IF str[i] \in DOMAIN LowerCase THEN LowerCase[str[i]] ELSE str[i]]

\* String.prototype.toUpperCase
ToUpperCase(str) ==
    [i \in 1..Len(str) |-> IF str[i] \in DOMAIN UpperCase THEN UpperCase[str[i]] ELSE str[i]]

Digit == <<"0", "1", "2", "3", "4", "5", "6", "7", "8", "9">>

\* `${counter}`
RECURSIVE NumberToString(_)
NumberToString(n) ==
    IF n < 10 THEN <<Digit[n + 1]>>
    ELSE NumberToString(n \div 10) \o <<Digit[(n % 10) + 1]>>

\* Variant: the folder name is used as it is spelled in the path.
CapitalizeNot(name) == name

\* folderName.charAt(0).toUpperCase() + folderName.slice(1)
Capitalize(name) ==
    IF name = <<>> THEN <<>> ELSE ToUpperCase(<<name[1]>>) \o Tail(name)

\* pathParts.length > 1 ? pathParts[pathParts.length - 2] : ''
FolderName(path) == IF Len(path) > 1 THEN path[Len(path) - 1] ELSE <<>>

\* `${headerText} (${suffix})`
WithSuffix(headerText, suffix) == headerText \o <<" ", "(">> \o suffix \o <<")">>

\* The header tried after `counter` was incremented.
NextHeader(headerText, path, counter) ==
    IF path # << <<>> >> /\ counter = 2 /\ FolderName(path) # <<>>
        THEN WithSuffix(headerText, Capitalize(FolderName(path)))
        ELSE WithSuffix(headerText, NumberToString(counter))

\* Variant: the used-header test compares without folding case.
HeaderUsedExact(header, usedHeaders) == header \in usedHeaders

\* usedHeaders.has(uniqueHeader.toLowerCase())
HeaderUsed(header, usedHeaders) == ToLowerCase(header) \in usedHeaders

RECURSIVE UniqueHeader(_, _, _, _, _)
UniqueHeader(headerText, path, usedHeaders, uniqueHeader, counter) ==
    IF HeaderUsed(uniqueHeader, usedHeaders)
        THEN UniqueHeader(headerText, path, usedHeaders,
                          NextHeader(headerText, path, counter + 1), counter + 1)
        ELSE uniqueHeader

\* docs.map(doc => ...) with the usedHeaders set threaded through
RECURSIVE SectionHeaders(_, _)
SectionHeaders(docs, usedHeaders) ==
    IF docs = <<>> THEN <<>>
    ELSE LET doc == Head(docs)
             h == UniqueHeader(doc.title, doc.path, usedHeaders, doc.title, 1)
         IN <<h>> \o SectionHeaders(Tail(docs), usedHeaders \cup {ToLowerCase(h)})

GenerateLLMFileFull(docs) ==
    /\ pc = "start"
    /\ rdocs' = docs
    /\ headers' = SectionHeaders(docs, {})
    /\ pc' = "rendered"
    /\ UNCHANGED <<target, filesToProcess, idx, kind, processedDocs, outFiles>>
    /\ UNCHANGED collectVars
    /\ UNCHANGED runVars
    /\ UNCHANGED pureVars
    /\ UNCHANGED lateVars

----------------------------------------------------------------------------
(* utils.ts: applyPathTransformations.  A URL path is a sequence of          *)
(* characters; the ignore and add entries are literal segments.             *)

Slash == <<"/">>

\* What follows the first n characters of str is a "/" or the end: (/|$)
SegmentEnds(str, n) == Len(str) = n \/ (Len(str) > n /\ str[n + 1] = "/")

\* The text after a match of ignorePath that began at the head of str, the
\* "/" of (/|$) included.
AfterMatch(str, ignorePath) ==
    SubSeq(str, Len(ignorePath) + (IF Len(str) > Len(ignorePath) THEN 2 ELSE 1), Len(str))

\* $3 of a match of ignorePath at the head of str
ClosingSlash(str, ignorePath) == IF Len(str) > Len(ignorePath) THEN Slash ELSE <<>>

\* transformedPath.replace(new RegExp(`(^|/)(${ignorePath})(/|$)`, 'g'), '$1$3'):
\* one left-to-right pass; the search resumes after the text a match consumed.
RECURSIVE IgnoreReplace(_, _, _)
IgnoreReplace(str, ignorePath, atStart) ==
    IF str = <<>> THEN <<>>
    ELSE IF atStart /\ StartsWith(str, ignorePath) /\ SegmentEnds(str, Len(ignorePath))
        THEN ClosingSlash(str, ignorePath)
             \o IgnoreReplace(AfterMatch(str, ignorePath), ignorePath, FALSE)
    ELSE IF /\ str[1] = "/"
            /\ StartsWith(Tail(str), ignorePath)
            /\ SegmentEnds(Tail(str), Len(ignorePath))
        THEN Slash \o ClosingSlash(Tail(str), ignorePath)
             \o IgnoreReplace(AfterMatch(Tail(str), ignorePath), ignorePath, FALSE)
    ELSE <<str[1]>> \o IgnoreReplace(Tail(str), ignorePath, FALSE)

\* for (const ignorePath of pathTransformation.ignorePaths) { ... }
RECURSIVE IgnoreLoop(_, _)
IgnoreLoop(str, ignorePaths) ==
    IF ignorePaths = <<>> THEN str
    ELSE IgnoreLoop(IgnoreReplace(str, Head(ignorePaths), TRUE), Tail(ignorePaths))

\* .replace(/\/+/g, '/')
RECURSIVE CollapseSlashes(_)
CollapseSlashes(str) ==
    IF Len(str) < 2 THEN str
    ELSE IF str[1] = "/" /\ str[2] = "/" THEN CollapseSlashes(Tail(str))
    ELSE <<str[1]>> \o CollapseSlashes(Tail(str))

\* .replace(/^\//, '')
StripLeadingSlash(str) == IF str # <<>> /\ str[1] = "/" THEN Tail(str) ELSE str

RemoveIgnored(str, ignorePaths) ==
    IF Len(ignorePaths) > 0
        THEN StripLeadingSlash(CollapseSlashes(IgnoreLoop(str, ignorePaths)))
        ELSE str

\* Variant: the add entries are taken in the order listed.
ReverseNot(s) == s

\* [...pathTransformation.addPaths].reverse()
Reverse(s) == [i \in 1..Len(s) |-> s[Len(s) + 1 - i]]

\* for (const addPath of pathsToAdd) { if (!startsWith(addPath + '/') && !== addPath) ... }
RECURSIVE AddLoop(_, _)
AddLoop(str, pathsToAdd) ==
    IF pathsToAdd = <<>> THEN str
    ELSE LET addPath == Head(pathsToAdd)
         IN AddLoop(IF ~StartsWith(str, addPath \o Slash) /\ str # addPath
                        THEN addPath \o Slash \o str
                        ELSE str,
                    Tail(pathsToAdd))

AddPrefixes(str, addPaths) ==
    IF Len(addPaths) > 0 THEN AddLoop(str, Reverse(addPaths)) ELSE str

Transformed(str, rules) ==
    AddPrefixes(RemoveIgnored(str, rules.ignorePaths), rules.addPaths)

ApplyPathTransformations(str, rules) ==
    /\ pc = "start"
    /\ urlPath' = str
    /\ pathTransformation' = rules
    /\ transformedPath' = Transformed(str, rules)
    /\ pc' = "transformed"
    /\ UNCHANGED <<target, filesToProcess, idx, kind, processedDocs, outFiles>>
    /\ UNCHANGED collectVars
    /\ UNCHANGED renderVars
    /\ UNCHANGED runVars
    /\ UNCHANGED partialVars
    /\ UNCHANGED lateVars

\* The function applied to its own result, with the same rules.
ApplyPathTransformationsAgain ==
    /\ pc = "transformed"
    /\ urlPath' = transformedPath
    /\ transformedPath' = Transformed(transformedPath, pathTransformation)
    /\ pc' = "transformedTwice"
    /\ UNCHANGED pathTransformation
    /\ UNCHANGED <<target, filesToProcess, idx, kind, processedDocs, outFiles>>
    /\ UNCHANGED collectVars
    /\ UNCHANGED renderVars
    /\ UNCHANGED runVars
    /\ UNCHANGED partialVars
    /\ UNCHANGED lateVars

----------------------------------------------------------------------------
(* utils.ts: resolvePartialImports.  The text is a sequence of tokens: an    *)
(* import line of a partial, a JSX tag, a piece of prose, a blank, or a "$"  *)
(* pattern of String.prototype.replace.  A component name is a sequence of   *)
(* characters.                                                              *)

Token(t, name, arg) == [t |-> t, name |-> name, arg |-> arg]

ImportLine(name, path) == Token("import", name, path)  \* import Name from 'path';
SelfClosing(name) == Token("self", name, "")           \* <Name />
PairedText(name) == Token("paired", name, "text")      \* <Name>words</Name>
PairedMarkup(name) == Token("paired", name, "markup")  \* <Name><b>words</b></Name>
Prose(words) == Token("text", <<>>, words)
Blank == Token("space", <<>>, " ")
DollarPattern(pattern) == Token("dollar", <<>>, pattern)

Unreadable == [readable |-> FALSE, body |-> <<>>]
Readable(body) == [readable |-> TRUE, body |-> body]

\* imports.set(componentName, importPath)
MapSet(imports, name, path) ==
    IF \E i \in 1..Len(imports) : imports[i].name = name
        THEN [i \in 1..Len(imports) |->
                 IF imports[i].name = name THEN [name |-> name, path |-> path]
                 ELSE imports[i]]
        ELSE Append(imports, [name |-> name, path |-> path])

\* First pass: while ((match = importRegex.exec(content)) !== null) { ... }
RECURSIVE CollectImports(_, _)
CollectImports(text, imports) ==
    IF text = <<>> THEN imports
    ELSE CollectImports(Tail(text),
                        IF Head(text).t = "import"
                            THEN MapSet(imports, Head(text).name, Head(text).arg)
                            ELSE imports)

\* resolved.replace(<import Name from 'path' line>, '')
RECURSIVE RemoveImport(_, _, _)
RemoveImport(text, name, path) ==
    IF text = <<>> THEN <<>>
    ELSE IF Head(text) = ImportLine(name, path) THEN RemoveImport(Tail(text), name, path)
    ELSE <<Head(text)>> \o RemoveImport(Tail(text), name, path)

\* <Name\s*(?:[^>]*?)(?:/>|>[^<]*</Name>): nothing separates Name from what
\* follows it, so a self-closing tag of any component whose name begins with
\* Name matches; a paired tag matches only with the closing tag </Name> and
\* with no "<" between the tags.
JsxMatch(tok, componentName) ==
    \/ tok.t = "self" /\ StartsWith(tok.name, componentName)
    \/ tok.t = "paired" /\ tok.name = componentName /\ tok.arg = "text"

\* The replacement string as String.prototype.replace expands it: "$$" gives
\* "$" and "$&" the matched text.
RECURSIVE Substitution(_, _)
Substitution(replacement, matched) ==
    IF replacement = <<>> THEN <<>>
    ELSE LET tok == Head(replacement)
         IN (IF tok = DollarPattern("$$") THEN <<Prose("$")>>
             ELSE IF tok = DollarPattern("$&") THEN <<matched>>
             ELSE <<tok>>)
            \o Substitution(Tail(replacement), matched)

\* resolved.replace(jsxRegex, replacement)
RECURSIVE ReplaceJsx(_, _, _)
ReplaceJsx(text, componentName, replacement) ==
    IF text = <<>> THEN <<>>
    ELSE (IF JsxMatch(Head(text), componentName)
              THEN Substitution(replacement, Head(text))
              ELSE <<Head(text)>>)
         \o ReplaceJsx(Tail(text), componentName, replacement)

\* String.prototype.trim
RECURSIVE TrimStart(_)
TrimStart(text) ==
    IF text # <<>> /\ Head(text) = Blank THEN TrimStart(Tail(text)) ELSE text

RECURSIVE TrimEnd(_)
TrimEnd(text) ==
    IF text # <<>> /\ text[Len(text)] = Blank
        THEN TrimEnd(SubSeq(text, 1, Len(text) - 1))
        ELSE text

Trim(text) == TrimEnd(TrimStart(text))

\* for (const [componentName, importPath] of imports) { try { ... } catch { warn } }
RECURSIVE ResolveLoop(_, _, _)
ResolveLoop(text, imports, files) ==
    IF imports = <<>> THEN text
    ELSE LET componentName == Head(imports).name
             importPath == Head(imports).path
         IN ResolveLoop(
                IF files[importPath].readable
                    THEN ReplaceJsx(RemoveImport(text, componentName, importPath),
                                    componentName, Trim(files[importPath].body))
                    ELSE text,
                Tail(imports), files)

ResolvePartialImports(text, files) ==
    /\ pc = "start"
    /\ markdownContent' = text
    /\ partialFiles' = files
    /\ resolved' = ResolveLoop(text, CollectImports(text, <<>>), files)
    /\ pc' = "resolved"
    /\ UNCHANGED <<target, filesToProcess, idx, kind, processedDocs, outFiles>>
    /\ UNCHANGED collectVars
    /\ UNCHANGED renderVars
    /\ UNCHANGED runVars
    /\ UNCHANGED pathVars
    /\ UNCHANGED lateVars

----------------------------------------------------------------------------
(* Inputs *)

NoTarget == [type |-> "none", include |-> <<>>, ignore |-> <<>>, order |-> <<>>,
             unmatched |-> FALSE]

OrderLists == SeqsUpTo(OrderPatterns, MaxOrder)
IncludeLists == {<<>>, <<PatA>>, <<PatOne>>}
IgnoreLists == {<<>>, <<PatBaseTwo>>}
GlobalIgnoreLists == {<<>>, <<PatOne>>, <<PatDirA>>}

\* Two partials; the name of the first component begins the name of the second.
NameS == <<"S">>
NameSx == <<"S", "x">>
PathS == "./_s.mdx"
PathSx == "./_sx.mdx"
PartialPaths == {PathS, PathSx}

\* The defaults of generateStandardLLMFiles / generateCustomLLMFiles.
DefaultOptions ==
    [includeOrder |-> <<>>, includeUnmatchedLast |-> TRUE,
     generateMarkdownFiles |-> FALSE, customLLMFiles |-> <<>>]

Init ==
    /\ pc = "start"
    /\ docsDir = "docs"
    /\ includeBlog = FALSE
    /\ ignoreFiles = <<>>
    /\ fsDocs = <<>>
    /\ fsBlog = <<>>
    /\ missingRoots = {}
    /\ allDocFiles = <<>>
    /\ target = NoTarget
    /\ filesToProcess = <<>>
    /\ idx = 0
    /\ kind = [f \in AllPaths |-> "unread"]
    /\ processedDocs = <<>>
    /\ outFiles = {}
    /\ rdocs = <<>>
    /\ headers = <<>>
    /\ options = DefaultOptions
    /\ previous = [run |-> 1, out |-> {}]
    /\ urlPath = <<>>
    /\ pathTransformation = [ignorePaths |-> <<>>, addPaths |-> <<>>]
    /\ transformedPath = <<>>
    /\ markdownContent = <<>>
    /\ partialFiles = [path \in PartialPaths |-> Unreadable]
    /\ resolved = <<>>
    /\ build = [failed |-> FALSE, log |-> <<>>, rejected |-> FALSE]
    /\ llmFile = [via |-> "none", written |-> <<>>]
    /\ markdownFiles = [via |-> "none", written |-> <<>>]
    /\ toc = [docs |-> <<>>, tocItems |-> <<>>]
    /\ cleaned = [lines |-> <<>>, removeDuplicateHeadings |-> FALSE,
                  processedLines |-> <<>>, result |-> <<>>]
    /\ partialRun = [content |-> <<>>, files |-> [path \in PartialPaths |-> Unreadable],
                     imports |-> <<>>, resolved |-> <<>>, reads |-> <<>>]
    /\ docUrl = [url |-> <<>>, baseUrl |-> <<>>, siteUrl |-> <<>>, path |-> <<>>,
                 pathTransformation |-> [ignorePaths |-> <<>>, addPaths |-> <<>>],
                 hasRoutes |-> FALSE, routes |-> <<>>, resolvedUrl |-> <<>>,
                 fullUrl |-> <<>>]

\* A root that the options do not visit is left empty.
Collect ==
    /\ pc = "start"
    /\ \E dd \in {"docs", "blog"}, ib \in BOOLEAN, ign \in GlobalIgnoreLists,
          wd \in Walks(DocsTree), wb \in Walks(BlogTree) :
          /\ dd = "blog" => wd = <<>>
          /\ (dd = "docs" /\ ~ib) => wb = <<>>
          /\ CollectDocFiles(dd, ib, ign, wd, wb, {})

\* index.ts postBuild: with an empty corpus the run warns and returns before
\* any target is processed.
NoDocuments ==
    /\ pc = "collected"
    /\ allDocFiles = <<>>
    /\ pc' = "done"
    /\ UNCHANGED <<target, filesToProcess, idx, kind, processedDocs, outFiles>>
    /\ UNCHANGED collectVars
    /\ UNCHANGED renderVars
    /\ UNCHANGED runVars
    /\ UNCHANGED pureVars
    /\ UNCHANGED lateVars

SelectStandard ==
    /\ pc = "collected"
    /\ allDocFiles # <<>>
    /\ \E ord \in OrderLists, um \in BOOLEAN : StandardTarget(ord, um)

SelectCustom ==
    /\ pc = "collected"
    /\ allDocFiles # <<>>
    /\ \E inc \in IncludeLists, ign \in IgnoreLists, ord \in OrderLists, um \in BOOLEAN :
          CustomTarget(inc, ign, ord, um)

NextSelect == Collect \/ NoDocuments \/ SelectStandard \/ SelectCustom

SpecSelect == Init /\ [][NextSelect]_vars

\* Full-content rendering of a list of documents.
TitleT == <<"T">>
TitleLowerT == <<"t">>
Titles ==
    {TitleT, TitleLowerT, WithSuffix(TitleT, <<"A">>),
     WithSuffix(TitleT, <<"2">>), WithSuffix(TitleT, <<"3">>)}

FileX == <<"x", ".", "m", "d">>
RenderPaths ==
    { << <<"a">>, FileX >>,      \* a/x.md
      << <<"b">>, FileX >>,      \* b/x.md
      << FileX >>,               \* x.md
      << <<>>, FileX >> }        \* /x.md

RenderInputs == [title : Titles, path : RenderPaths]

Render ==
    /\ pc = "start"
    /\ \E docs \in SeqsUpTo(RenderInputs, MaxDocs) : GenerateLLMFileFull(docs)

NextRender == Render

SpecRender == Init /\ [][NextRender]_vars

\* One target from collection to its written files.
CollectSmall ==
    /\ pc = "start"
    /\ \E dd \in {"docs", "blog"}, ib \in BOOLEAN,
          wd \in Walks(DocsTree), wb \in Walks(BlogTree) :
          /\ Len(wd) + Len(wb) <= MaxFiles
          /\ CollectDocFiles(dd, ib, <<>>, wd, wb, {})

TargetStandard ==
    /\ allDocFiles # <<>>
    /\ \E ord \in {<<>>, <<PatBaseTwo>>}, um \in BOOLEAN : StandardTarget(ord, um)

TargetCustom ==
    /\ allDocFiles # <<>>
    /\ CustomTarget(<<PatA>>, <<>>, <<>>, FALSE)

Load == \E content \in FileKinds : LoadFile(content)

Generate == \E gm \in BOOLEAN, full \in BOOLEAN : GenerateFiles(gm, full)

NextTarget == CollectSmall \/ NoDocuments \/ TargetStandard \/ TargetCustom \/ Load \/ Generate

SpecTarget == Init /\ [][NextTarget]_vars

\* A whole run: collection from the roots that exist, then every target.
PatMdx == <<"1.mdx">>

CustomFiles ==
    { [filename |-> "custom.txt", include |-> <<PatMdx>>, ignore |-> <<>>, order |-> <<>>,
       unmatched |-> FALSE, full |-> FALSE],
      [filename |-> "b.txt", include |-> <<PatB>>, ignore |-> <<>>, order |-> <<>>,
       unmatched |-> FALSE, full |-> TRUE] }

CustomLists == {s \in SeqsUpTo(CustomFiles, MaxCustom) : Distinct(s)}

RunKinds == {"absent", "bool:true"}

\* What reading gives for the files of the corpus; other files are not read.
Contents(files) ==
    {[f \in AllPaths |-> IF f \in Range(files) THEN c[f] ELSE "unread"] :
        c \in [Range(files) -> RunKinds]}

CollectRun ==
    /\ pc = "start"
    /\ \E ib \in BOOLEAN, wd \in Walks(MdxTree), wb \in Walks(BlogTree),
          missing \in SUBSET {"docs", "blog"} :
          /\ "docs" \in missing => wd = <<>>
          /\ ("blog" \in missing \/ ~ib) => wb = <<>>
          /\ CollectDocFiles("docs", ib, <<>>, wd, wb, missing)

RunTargets ==
    /\ pc = "collected"
    /\ \E content \in Contents(allDocFiles), ord \in {<<>>, <<PatMdx>>}, um \in BOOLEAN,
          gm \in BOOLEAN, customs \in CustomLists :
          PostBuildTargets(content, ord, um, gm, customs)

NextRun == CollectRun \/ NoDocuments \/ RunTargets

SpecRun == Init /\ [][NextRun]_vars

\* Discovery in a tree that holds partial files, then every target.
PatPartialDir == <<"_d">>

DiscoverIgnoreLists == {<<>>, <<PatOne>>, <<PatPartialDir>>}

CollectPartialTree ==
    /\ pc = "start"
    /\ \E ign \in DiscoverIgnoreLists, wd \in Walks(PartialTree) :
          CollectDocFiles("docs", FALSE, ign, wd, <<>>, {})

NextDiscover == CollectPartialTree \/ NoDocuments \/ RunTargets

SpecDiscover == Init /\ [][NextDiscover]_vars

\* Partial resolution of short documents.
DocTokens ==
    { ImportLine(NameS, PathS), ImportLine(NameSx, PathSx),
      SelfClosing(NameS), SelfClosing(NameSx),
      PairedText(NameS), PairedText(NameSx), PairedMarkup(NameS),
      Prose("w") }

\* What a partial file can hold; its prose names the partial.
PartialContents(words) ==
    { Unreadable,
      Readable(<<Blank, Prose(words), Blank>>),
      Readable(<<Prose(words), DollarPattern("$$")>>),
      Readable(<<Prose(words), DollarPattern("$&")>>) }

PartialFileSystems ==
    {[path \in PartialPaths |-> IF path = PathS THEN s ELSE sx] :
        s \in PartialContents("s"), sx \in PartialContents("sx")}

Resolve ==
    /\ pc = "start"
    /\ \E text \in SeqsUpTo(DocTokens, MaxTokens), files \in PartialFileSystems :
          ResolvePartialImports(text, files)

NextPartial == Resolve

SpecPartial == Init /\ [][NextPartial]_vars

\* Path transformation of well-formed relative paths.
SegX == <<"x">>
SegA == <<"a">>
SegAX == <<"a", "x">>

RECURSIVE JoinPath(_)
JoinPath(segs) ==
    IF segs = <<>> THEN <<>>
    ELSE IF Len(segs) = 1 THEN segs[1]
    ELSE segs[1] \o Slash \o JoinPath(Tail(segs))

UrlPaths == {JoinPath(segs) : segs \in SeqsUpTo({SegX, SegA, SegAX}, MaxSegs)}

RuleLists == SeqsUpTo({SegX, SegA}, MaxRules)

Transform ==
    /\ pc = "start"
    /\ \E str \in UrlPaths, ign \in RuleLists, add \in RuleLists :
          ApplyPathTransformations(str, [ignorePaths |-> ign, addPaths |-> add])

NextPath == Transform \/ ApplyPathTransformationsAgain

SpecPath == Init /\ [][NextPath]_vars

\* A whole run followed by a second run on the unchanged inputs.
NextTwice == CollectRun \/ NoDocuments \/ RunTargets \/ PostBuildAgain

SpecTwice == Init /\ [][NextTwice]_vars

----------------------------------------------------------------------------
(* Properties of selection and ordering *)

Selected == pc = "loading"

\* A file is eligible for the current target when it passes the include list
\* (if any) and no ignore pattern of the target.
Eligible(f) ==
    /\ Len(target.include) > 0 => MatchesAny(f, target.include)
    /\ ~MatchesAny(f, target.ignore)

EligibleFiles == SeqFilter(allDocFiles, {f \in Range(allDocFiles) : Eligible(f)})

MatchesOrder(f) == MatchesAny(f, target.order)

FirstMatch(f, i) ==
    /\ Minimatch(f, target.order[i])
    /\ \A j \in 1..(i - 1) : ~Minimatch(f, target.order[j])

Bucket(i) == SeqFilter(EligibleFiles, {f \in Range(EligibleFiles) : FirstMatch(f, i)})

RECURSIVE Buckets(_)
Buckets(i) == IF i > Len(target.order) THEN <<>> ELSE Bucket(i) \o Buckets(i + 1)

Count(s, x) == Cardinality({i \in 1..Len(s) : s[i] = x})

MatchedPart == SeqFilter(filesToProcess, {f \in Range(filesToProcess) : MatchesOrder(f)})
UnmatchedPart == SeqFilter(filesToProcess, {f \in Range(filesToProcess) : ~MatchesOrder(f)})

\* C2: with a non-empty order list the pattern-matched part of the selection is
\* the concatenation, pattern by pattern, of the eligible files whose first
\* matching pattern it is, each group in corpus order.
C2_OrderedBuckets ==
    (Selected /\ Len(target.order) > 0) => MatchedPart = Buckets(1)

\* C2 witness: two patterns, both buckets non-empty, and the selection differs
\* from corpus order.
C2_Witness ==
    /\ Selected
    /\ Len(target.order) = 2
    /\ Bucket(1) # <<>>
    /\ Bucket(2) # <<>>
    /\ filesToProcess # EligibleFiles
    /\ \E f \in Range(filesToProcess) :
          Minimatch(f, target.order[1]) /\ Minimatch(f, target.order[2])

\* C3: a file that matches several order patterns sits in the bucket of the
\* first one only, and no path occurs twice in the selection.
C3_NoDuplicateSelection ==
    Selected =>
        /\ \A i \in 1..Len(target.order) :
              \A f \in Range(Bucket(i)) :
                  \A j \in (i + 1)..Len(target.order) : f \notin Range(Bucket(j))
        /\ Distinct(filesToProcess)

\* C4: with a non-empty order list and includeUnmatchedLast the unmatched
\* eligible files follow all matched ones in corpus order and the selection is
\* a permutation of the eligible files; without it no unmatched file is selected.
C4_UnmatchedLast ==
    (Selected /\ Len(target.order) > 0) =>
        IF target.unmatched
            THEN /\ filesToProcess = MatchedPart \o UnmatchedPart
                 /\ UnmatchedPart =
                       SeqFilter(EligibleFiles,
                                 {f \in Range(EligibleFiles) : ~MatchesOrder(f)})
                 /\ \A f \in AllPaths : Count(filesToProcess, f) = Count(EligibleFiles, f)
            ELSE \A f \in Range(filesToProcess) : MatchesOrder(f)

\* C4 witness: both settings meet an eligible file that matches no order pattern.
C4_Witness ==
    /\ Selected
    /\ Len(target.order) > 0
    /\ \E f \in Range(EligibleFiles) : ~MatchesOrder(f)
    /\ \E f \in Range(EligibleFiles) : MatchesOrder(f)
    /\ ~target.unmatched
    /\ Len(filesToProcess) < Len(EligibleFiles)

\* C5: with an empty order list the selection is the eligible files in corpus
\* order, whatever includeUnmatchedLast is.
C5_EmptyOrder ==
    (Selected /\ Len(target.order) = 0) => filesToProcess = EligibleFiles

\* C5 witness: a custom target with its default includeUnmatchedLast = false and
\* no order patterns still selects files.
C5_Witness ==
    /\ Selected
    /\ target.type = "custom"
    /\ Len(target.order) = 0
    /\ ~target.unmatched
    /\ Len(filesToProcess) >= 2

\* C6: every selected file matches no ignore pattern, global or per target, and
\* matches an include pattern when the include list is non-empty.
C6_SelectedEligible ==
    Selected =>
        \A f \in Range(filesToProcess) :
            /\ ~MatchesAny(f, ignoreFiles)
            /\ ~MatchesAny(f, target.ignore)
            /\ Len(target.include) > 0 => MatchesAny(f, target.include)

\* C6 witness: a file matched by both an include and an ignore pattern is in the
\* corpus and something is still selected.
C6_Witness ==
    /\ Selected
    /\ Len(target.include) > 0
    /\ \E f \in Range(allDocFiles) :
          MatchesAny(f, target.include) /\ MatchesAny(f, target.ignore)
    /\ filesToProcess # <<>>

----------------------------------------------------------------------------
(* Properties of loading *)

\* Positions of filesToProcess whose loop iteration has completed.
Handled == 1..(IF pc \in {"loading", "done"} THEN idx - 1 ELSE 0)

Loadable(f) == kind[f] \in {"bool:false", "string:true", "absent"}

LLMFiles == {o \in outFiles : o.mode \in {"links", "full"}}

\* C1: a file whose frontmatter draft is the boolean true yields no Document
\* and is in no written file; a file with any other draft value that was read
\* yields a Document and, once the target is written, is in each of its files.
C1_DraftExclusion ==
    /\ \A i \in 1..Len(processedDocs) : kind[processedDocs[i].src] # "bool:true"
    /\ \A o \in outFiles : \A f \in Range(o.docs) : kind[f] # "bool:true"
    /\ \A j \in Handled :
          Loadable(filesToProcess[j]) =>
              /\ filesToProcess[j] \in Range(DocSources(processedDocs))
              /\ pc = "done" =>
                    /\ LLMFiles # {}
                    /\ \A o \in LLMFiles : filesToProcess[j] \in Range(o.docs)

\* C1 witness: a written target whose selection held a draft: true file, a
\* draft: "true" file and a file without draft, with standalone files written.
C1_Witness ==
    /\ pc = "done"
    /\ \E f, g, h \in Range(filesToProcess) :
          kind[f] = "bool:true" /\ kind[g] = "string:true" /\ kind[h] = "absent"
    /\ \E o \in outFiles : o.mode = "standalone"
    /\ \E o \in outFiles : o.mode = "full"

\* C7: the Document list is the selected list without drafts and failed files,
\* in the same relative order, and each written file lists them in that order.
C7_OrderPreserved ==
    /\ DocSources(processedDocs) =
          SeqFilter(SubSeq(filesToProcess, 1, Cardinality(Handled)),
                    {f \in AllPaths : Loadable(f)})
    /\ \A o \in LLMFiles : o.docs = DocSources(processedDocs)

\* C7 witness: a reordered selection of three files whose middle one is dropped,
\* written out.
C7_Witness ==
    /\ pc = "done"
    /\ Len(filesToProcess) = 3
    /\ filesToProcess # allDocFiles
    /\ ~Loadable(filesToProcess[2])
    /\ Len(processedDocs) = 2
    /\ LLMFiles # {}

\* C8: a file whose read or parse throws is the only one omitted because of it:
\* every other handled file that is not a draft has its Document, and the loop
\* goes on to the following files.
C8_ErrorIsolated ==
    \A j \in Handled :
        /\ Loadable(filesToProcess[j]) =>
              filesToProcess[j] \in Range(DocSources(processedDocs))
        /\ kind[filesToProcess[j]] = "readError" =>
              filesToProcess[j] \notin Range(DocSources(processedDocs))

\* C8 witness: a file failed between two files that were loaded, and the target
\* was written.
C8_Witness ==
    /\ pc = "done"
    /\ Len(filesToProcess) = 3
    /\ Loadable(filesToProcess[1])
    /\ kind[filesToProcess[2]] = "readError"
    /\ Loadable(filesToProcess[3])
    /\ LLMFiles # {}

----------------------------------------------------------------------------
(* Properties of full-content section headers *)

Rendered == pc = "rendered"

UsedBefore(i) == {ToLowerCase(headers[j]) : j \in 1..(i - 1)}

Free(header, i) == ToLowerCase(header) \notin UsedBefore(i)

HasFolder(i) == Len(rdocs[i].path) > 1 /\ rdocs[i].path[Len(rdocs[i].path) - 1] # <<>>

FolderHeader(i) ==
    LET folder == rdocs[i].path[Len(rdocs[i].path) - 1]
    IN WithSuffix(rdocs[i].title,
                  <<IF folder[1] \in DOMAIN UpperCase THEN UpperCase[folder[1]] ELSE folder[1]>>
                  \o Tail(folder))

Numbered(i, n) == WithSuffix(rdocs[i].title, NumberToString(n))

\* The first number from `from` on whose header is not used before document i.
FirstFreeNumber(i, from) ==
    CHOOSE n \in from..(from + Len(rdocs)) :
        Free(Numbered(i, n), i) /\ \A m \in from..(n - 1) : ~Free(Numbered(i, m), i)

\* C9: the section headers of one render are pairwise distinct when compared
\* without regard to case.
C9_HeadersDistinct ==
    Rendered =>
        \A i, j \in 1..Len(headers) :
            i # j => ToLowerCase(headers[i]) # ToLowerCase(headers[j])

\* C9 witness: a document is numbered (3) because an earlier document's own
\* title already reads like its (2) header.
C9_Witness ==
    /\ Rendered
    /\ \E i \in 1..Len(rdocs) :
          /\ headers[i] = Numbered(i, 3)
          /\ \E j \in 1..(i - 1) : rdocs[j].title = Numbered(i, 2)
    /\ \E i, j \in 1..Len(rdocs) :
          rdocs[i].title = TitleT /\ rdocs[j].title = TitleLowerT

\* C10 as stated: unused title kept; used title gets the capitalized folder name;
\* if that is used too, or there is no folder, the numbers (2), (3), ... in turn.
C10_AsStated ==
    Rendered =>
        \A i \in 1..Len(rdocs) :
            IF Free(rdocs[i].title, i) THEN headers[i] = rdocs[i].title
            ELSE IF HasFolder(i) /\ Free(FolderHeader(i), i)
                THEN headers[i] = FolderHeader(i)
            ELSE headers[i] = Numbered(i, FirstFreeNumber(i, 2))

\* C10 amended: as stated, except that after a used folder header the numbers
\* start at (3); they start at (2) only when the path has no parent folder.
C10_HeaderChoice ==
    Rendered =>
        \A i \in 1..Len(rdocs) :
            IF Free(rdocs[i].title, i) THEN headers[i] = rdocs[i].title
            ELSE IF HasFolder(i) /\ Free(FolderHeader(i), i)
                THEN headers[i] = FolderHeader(i)
            ELSE headers[i] =
                    Numbered(i, FirstFreeNumber(i, IF HasFolder(i) THEN 3 ELSE 2))

\* C10 witness: one render with a kept title, a folder header, a number after a
\* used folder header.
C10_Witness ==
    /\ Rendered
    /\ Len(rdocs) = 3
    /\ headers[1] = rdocs[1].title
    /\ HasFolder(2) /\ headers[2] = FolderHeader(2)
    /\ HasFolder(3) /\ ~Free(FolderHeader(3), 3) /\ headers[3] = Numbered(3, 3)

\* C10 witness for the folderless case: the numbers (2) and (3) in turn.
C10_WitnessNoFolder ==
    /\ Rendered
    /\ Len(rdocs) = 3
    /\ \A i \in 1..3 : ~HasFolder(i)
    /\ headers[2] = Numbered(2, 2)
    /\ headers[3] = Numbered(3, 3)
    /\ rdocs[1].title = rdocs[3].title

----------------------------------------------------------------------------
(* Properties of a target's written files *)

\* C11: a target whose Document list is empty writes no file at all.
C11_NoEmptyArtifact ==
    (pc = "done" /\ Len(processedDocs) = 0) => outFiles = {}

\* C12: no file of the output directory is written twice with different
\* content in one run, so the final content of each file does not depend on
\* the order in which the targets are processed.
C12_NoConflictingWrites ==
    \A o1, o2 \in outFiles : o1.name = o2.name => o1 = o2

----------------------------------------------------------------------------
(* Properties of a repeated run *)

----------------------------------------------------------------------------
(* Properties of the path transformation *)

\* split('/')
RECURSIVE SplitPath(_, _)
SplitPath(str, seg) ==
    IF str = <<>> THEN <<seg>>
    ELSE IF str[1] = "/" THEN <<seg>> \o SplitPath(Tail(str), <<>>)
    ELSE SplitPath(Tail(str), Append(seg, str[1]))

Segments(str) == Range(SplitPath(str, <<>>))

\* Every occurrence of the text x in str is a complete segment.
OnlyWholeSegments(x, str) ==
    \A i \in 1..(Len(str) - Len(x) + 1) :
        SubSeq(str, i, i + Len(x) - 1) = x =>
            /\ (i = 1 \/ str[i - 1] = "/")
            /\ (i + Len(x) - 1 = Len(str) \/ str[i + Len(x)] = "/")

Transformed1 == pc = "transformed"

\* C14: with the single ignore entry x and no add entries, a path in which x
\* occurs only as complete segments is transformed into a path none of whose
\* segments is x.
C14_IgnoredSegmentsGone ==
    (/\ Transformed1
     /\ Len(pathTransformation.ignorePaths) = 1
     /\ pathTransformation.addPaths = <<>>
     /\ OnlyWholeSegments(pathTransformation.ignorePaths[1], urlPath))
        => pathTransformation.ignorePaths[1] \notin Segments(transformedPath)

\* The add entries as a path prefix: y1/.../yn/
RECURSIVE AddPrefix(_)
AddPrefix(addPaths) ==
    IF addPaths = <<>> THEN <<>>
    ELSE Head(addPaths) \o Slash \o AddPrefix(Tail(addPaths))

FirstSegment(str) == SplitPath(str, <<>>)[1]

AddOnly ==
    /\ Transformed1
    /\ pathTransformation.ignorePaths = <<>>
    /\ Len(pathTransformation.addPaths) > 0

NoRepeat(s) == \A i \in 1..(Len(s) - 1) : s[i] # s[i + 1]

\* The single-entry half of C15: the result begins with y/ unless the path
\* begins with y/ or is y, in which case it is returned as it is.
SingleAdd ==
    (AddOnly /\ Len(pathTransformation.addPaths) = 1) =>
        LET y == pathTransformation.addPaths[1]
        IN IF StartsWith(urlPath, y \o Slash) \/ urlPath = y
              THEN transformedPath = urlPath
              ELSE StartsWith(transformedPath, y \o Slash)

\* C15 as stated: for add entries y1..yn and a path whose first segment is none
\* of them the result is y1/.../yn/path.
C15_AsStated ==
    /\ SingleAdd
    /\ (AddOnly /\ FirstSegment(urlPath) \notin Range(pathTransformation.addPaths))
          => transformedPath = AddPrefix(pathTransformation.addPaths) \o urlPath

\* C15 amended: the same, for add lists in which no entry is directly followed
\* by an equal entry.
C15_AddOrder ==
    /\ SingleAdd
    /\ (/\ AddOnly
        /\ NoRepeat(pathTransformation.addPaths)
        /\ FirstSegment(urlPath) \notin Range(pathTransformation.addPaths))
          => transformedPath = AddPrefix(pathTransformation.addPaths) \o urlPath

\* C15 witness: two different entries were prepended to a path of two segments,
\* the first listed one leftmost.
C15_Witness ==
    /\ AddOnly
    /\ pathTransformation.addPaths = <<SegX, SegA>>
    /\ urlPath = SegAX \o Slash \o SegA
    /\ transformedPath = SegX \o Slash \o SegA \o Slash \o urlPath

\* C15 witness for the single entry: a path that begins with the entry is kept.
C15_WitnessKept ==
    /\ AddOnly
    /\ pathTransformation.addPaths = <<SegA>>
    /\ StartsWith(urlPath, SegA \o Slash)
    /\ transformedPath = urlPath

\* C16: a path that begins with the add entries is returned unchanged, and the
\* add rules applied to their own result return it unchanged.
C16_AddIdempotent ==
    /\ (AddOnly /\ StartsWith(urlPath, AddPrefix(pathTransformation.addPaths)))
          => transformedPath = urlPath
    /\ (pc = "transformedTwice" /\ pathTransformation.ignorePaths = <<>>)
          => transformedPath = urlPath

----------------------------------------------------------------------------
(* Properties of file discovery *)

FileName(f) == NameChars[f[Len(f)]]

IsPartialFile(f) == FileName(f)[1] = "_"

\* C17: no collected file has a name that begins with an underscore, whatever
\* the depth and the ignore patterns, and no written file holds a document
\* that comes from such a file.
C17_NoPartialCollected ==
    /\ \A f \in Range(allDocFiles) : ~IsPartialFile(f)
    /\ \A o \in outFiles : \A f \in Range(o.docs) : ~IsPartialFile(f)

\* C17 witness: the walk met a partial next to a document and a partial inside
\* a directory named with an underscore; the document of that directory was
\* collected and written.
C17_Witness ==
    /\ pc = "done"
    /\ <<"docs", "a", "_p.mdx">> \in Range(fsDocs)
    /\ <<"docs", "_d", "_p.md">> \in Range(fsDocs)
    /\ <<"docs", "_d", "1.md">> \in Range(allDocFiles)
    /\ \E o \in outFiles : <<"docs", "_d", "1.md">> \in Range(o.docs)

----------------------------------------------------------------------------
(* Properties of partial resolution *)

Resolved == pc = "resolved"

\* The imports of the document: component name and partial path, one per name.
Bindings == CollectImports(markdownContent, <<>>)

IsUsage(tok, name) == tok.t \in {"self", "paired"} /\ tok.name = name

UsagesOf(text, name) == SeqFilter(text, {tok \in Range(text) : IsUsage(tok, name)})

Occurrences(sub, text) ==
    Cardinality({i \in 1..(Len(text) - Len(sub) + 1) :
                    SubSeq(text, i, i + Len(sub) - 1) = sub})

ImportCount(text, b) ==
    Cardinality({i \in 1..Len(text) : text[i] = ImportLine(b.name, b.path)})

\* C18: for an import of a readable partial the returned text holds the
\* trimmed body of the partial once for each usage of the component, and holds
\* neither the import line nor any tag of the component.
C18_PartialInlined ==
    Resolved =>
        \A i \in 1..Len(Bindings) :
            LET b == Bindings[i]
                file == partialFiles[b.path]
            IN file.readable =>
                  /\ Occurrences(Trim(file.body), resolved)
                        >= Len(UsagesOf(markdownContent, b.name))
                  /\ ImportCount(resolved, b) = 0
                  /\ UsagesOf(resolved, b.name) = <<>>

\* C19: for an import of an unreadable partial the import line and the tags of
\* its component are in the returned text as they were, and every readable
\* partial of the document is still resolved: its import line is gone and its
\* prose is there when the document has a self-closing tag of it.
C19_UnreadableLeftAlone ==
    Resolved =>
        \A i \in 1..Len(Bindings) :
            LET b == Bindings[i]
            IN ~partialFiles[b.path].readable =>
                  /\ ImportCount(resolved, b) = ImportCount(markdownContent, b)
                  /\ UsagesOf(resolved, b.name) = UsagesOf(markdownContent, b.name)
                  /\ \A j \in 1..Len(Bindings) :
                        LET other == Bindings[j]
                            file == partialFiles[other.path]
                        IN file.readable =>
                              /\ ImportCount(resolved, other) = 0
                              /\ SelfClosing(other.name) \in Range(markdownContent) =>
                                    \E tok \in Range(file.body) :
                                        tok.t = "text" /\ tok \in Range(resolved)

----------------------------------------------------------------------------
(* Properties of collection from missing roots *)

BlogVisited == includeBlog /\ "blog" \notin missingRoots

DocsVisited == docsDir \notin missingRoots

\* C20: a missing root contributes no file; the files of the other root are
\* the corpus, and when there are any the targets are processed from them.
C20_MissingRootSkipped ==
    pc # "start" =>
        /\ ~DocsVisited => allDocFiles = (IF BlogVisited THEN fsBlog ELSE <<>>)
        /\ (includeBlog /\ ~BlogVisited) =>
              allDocFiles = (IF DocsVisited THEN fsDocs ELSE <<>>)
        /\ (pc = "done" /\ missingRoots # {} /\ allDocFiles # <<>>) =>
              \E o \in outFiles :
                  /\ o.name = OutName("llms.txt")
                  /\ o.docs = SeqFilter(filesToProcess,
                                        {f \in Range(filesToProcess) : Loadable(f)})
                  /\ Range(o.docs) \subseteq Range(allDocFiles)

\* C20 witness: the docs root is missing, the blog is enabled, and the artifact
\* lists the blog post.
C20_Witness ==
    /\ pc = "done"
    /\ ~DocsVisited
    /\ BlogVisited
    /\ allDocFiles = << <<"blog", "a", "1.md">> >>
    /\ \E o \in outFiles :
          o.name = OutName("llms.txt") /\ o.docs = << <<"blog", "a", "1.md">> >>

\* C20 witness for the other root: the blog root is missing and the artifact
\* lists the files of the docs root.
C20_WitnessBlogMissing ==
    /\ pc = "done"
    /\ includeBlog
    /\ ~BlogVisited
    /\ DocsVisited
    /\ Len(allDocFiles) >= 2
    /\ \E o \in outFiles : o.name = OutName("llms.txt") /\ o.docs = allDocFiles

----------------------------------------------------------------------------
(* index.ts: postBuild with its try/catch; an operation of the run may throw *)

StandaloneSeq(docs) ==
    [i \in 1..Len(docs) |->
        [name |-> docs[i].md, mode |-> "standalone", docs |-> <<docs[i].src>>]]

\* The writes of one target in the order the code makes them: the standalone
\* files in document order, then the artifact(s).
TargetWriteSeq(type, filename, loaded, generateMarkdownFiles, fullContent, dd) ==
    LET withMd == generateMarkdownFiles /\ Len(loaded) > 0
        docs == IF withMd THEN IndividualMarkdownFiles(loaded, dd, {}) ELSE loaded
        md == IF withMd THEN StandaloneSeq(docs) ELSE <<>>
    IN IF type = "standard"
           THEN md \o <<LLMFile("llms.txt", FALSE, docs), LLMFile("llms-full.txt", TRUE, docs)>>
       ELSE IF Len(loaded) > 0 THEN md \o <<LLMFile(filename, fullContent, docs)>>
       ELSE <<>>

Loaded(files, includePatterns, ignorePatterns, orderPatterns, includeUnmatched, content) ==
    LoadAll(SelectFiles(files, includePatterns, ignorePatterns, orderPatterns,
                        includeUnmatched), content, <<>>)

RECURSIVE CustomWriteSeq(_, _, _, _, _, _)
CustomWriteSeq(customLLMFiles, files, ign, content, generateMarkdownFiles, dd) ==
    IF customLLMFiles = <<>> THEN <<>>
    ELSE LET c == Head(customLLMFiles)
         IN TargetWriteSeq("custom", c.filename,
                           Loaded(files, c.include, ign \o c.ignore, c.order, c.unmatched,
                                  content),
                           generateMarkdownFiles, c.full, dd)
            \o CustomWriteSeq(Tail(customLLMFiles), files, ign, content,
                              generateMarkdownFiles, dd)

\* generateStandardLLMFiles, then generateCustomLLMFiles
RunWriteSeq(files, ign, content, opts, dd) ==
    TargetWriteSeq("standard", "llms.txt",
                   Loaded(files, <<>>, <<>>, opts.includeOrder, opts.includeUnmatchedLast,
                          content),
                   opts.generateMarkdownFiles, FALSE, dd)
    \o CustomWriteSeq(opts.customLLMFiles, files, ign, content,
                      opts.generateMarkdownFiles, dd)

LogGenerated(writes) == [i \in 1..Len(writes) |-> [event |-> "Generated", name |-> writes[i].name]]
LogError == [event |-> "Error generating LLM documentation", name |-> OutName("")]
LogStats == [event |-> "Stats", name |-> OutName("")]

\* Variant: no catch clause; the exception leaves postBuild.
TryCatchMissing(log, failed) ==
    [failed |-> failed, log |-> log \o (IF failed THEN <<>> ELSE <<LogStats>>),
     rejected |-> failed]

\* try { ...; console.log(`Stats: ...`) } catch (err) { console.error(...) }
TryCatch(log, failed) ==
    [failed |-> failed, log |-> log \o (IF failed THEN <<LogError>> ELSE <<LogStats>>),
     rejected |-> FALSE]

\* An exception before the corpus is known (processRoutes on malformed routes,
\* path.join on a docsDir that is not a string).
PostBuildCollectThrows ==
    /\ pc = "start"
    /\ build' = TryCatch(<<>>, TRUE)
    /\ pc' = "done"
    /\ UNCHANGED coreVars
    /\ UNCHANGED <<llmFile, markdownFiles, toc, cleaned, partialRun, docUrl>>

\* The targets of a run in which write number failAt throws (mkdir or
\* writeFile rejects); failAt beyond the last write is a run without failure.
PostBuildGenerate(content, includeOrder, includeUnmatchedLast, generateMarkdownFiles, customLLMFiles, failAt) ==
    /\ pc = "collected"
    /\ allDocFiles # <<>>
    /\ options' = [includeOrder |-> includeOrder,
                   includeUnmatchedLast |-> includeUnmatchedLast,
                   generateMarkdownFiles |-> generateMarkdownFiles,
                   customLLMFiles |-> customLLMFiles]
    /\ LET writes == RunWriteSeq(allDocFiles, ignoreFiles, content, options', docsDir)
           failed == failAt <= Len(writes)
           done == IF failed THEN SubSeq(writes, 1, failAt - 1) ELSE writes
       IN /\ failAt \in 1..(Len(writes) + 1)
          /\ outFiles' = Overwrite(outFiles, Range(done))
          /\ build' = TryCatch(LogGenerated(done), failed)
    /\ kind' = content
    /\ pc' = "done"
    /\ UNCHANGED <<target, filesToProcess, idx, processedDocs, previous>>
    /\ UNCHANGED collectVars
    /\ UNCHANGED renderVars
    /\ UNCHANGED pureVars
    /\ UNCHANGED <<llmFile, markdownFiles, toc, cleaned, partialRun, docUrl>>

MaxWrites == 2 * MaxFiles + 2 + MaxCustom

Build ==
    /\ pc = "collected"
    /\ \E content \in Contents(allDocFiles), ord \in {<<>>, <<PatMdx>>}, um \in BOOLEAN,
          gm \in BOOLEAN, customs \in CustomLists, failAt \in 1..(MaxWrites + 1) :
          PostBuildGenerate(content, ord, um, gm, customs, failAt)

NextBuild == CollectRun \/ NoDocuments \/ PostBuildCollectThrows \/ Build

SpecBuild == Init /\ [][NextBuild]_vars

Events(log) == {log[i].event : i \in 1..Len(log)}

\* C21: postBuild never lets an exception out: whatever operation of the run
\* throws, the promise is fulfilled, the error is the last thing logged, and
\* the closing statistics line that reports a finished generation is missing.
C21_ErrorsCaught ==
    pc = "done" =>
        /\ ~build.rejected
        /\ build.failed =>
            /\ build.log # <<>>
            /\ build.log[Len(build.log)] = LogError
            /\ LogStats.event \notin Events(build.log)
        /\ ~build.failed => LogError.event \notin Events(build.log)

\* A write failed after other files of the run had been written.
C21_Witness ==
    /\ pc = "done"
    /\ build.failed
    /\ \E o \in outFiles : o.mode = "standalone"
    /\ \E o \in outFiles : o.mode = "links"
    /\ \A o \in outFiles : o.mode # "full"

----------------------------------------------------------------------------
(* generator.ts: the text of an artifact, line by line; index.ts: the      *)
(* options that reach the generators                                       *)

\* An option that is not set; version ? a : b and a || b treat it like ''.
Undefined == "undefined"
Truthy(str) == str \notin {Undefined, ""}
Or(a, b) == IF Truthy(a) THEN a ELSE b

\* A line is a sequence of words; the text is split at its newlines.
EmptyLine == <<>>

\* Variant: the version is printed whatever it is.
VersionInfoAlways(version) == <<EmptyLine, <<"Version:", version>>>>

\* const versionInfo = version ? `\n\nVersion: ${version}` : '';
VersionInfo(version) ==
    IF Truthy(version) THEN <<EmptyLine, <<"Version:", version>>>> ELSE <<>>

TocItems(docs) == [i \in 1..Len(docs) |-> <<"-", docs[i]>>]

RECURSIVE FullContentSections(_)
FullContentSections(docs) ==
    IF docs = <<>> THEN <<>>
    ELSE <<<<"##", Head(docs)>>, EmptyLine, <<"content", Head(docs)>>>>
         \o (IF Tail(docs) = <<>> THEN <<>> ELSE <<EmptyLine, <<"---">>, EmptyLine>>)
         \o FullContentSections(Tail(docs))

\* `# ${fileTitle}\n\n> ${fileDescription}${versionInfo}\n\n${rootContent}\n\n...`
GenerateLLMFileText(docs, fileTitle, fileDescription, includeFullContent, version) ==
    <<<<"#", fileTitle>>, EmptyLine, <<">", fileDescription>>>>
    \o VersionInfo(version)
    \o <<EmptyLine, <<"rootContent">>, EmptyLine>>
    \o (IF includeFullContent THEN FullContentSections(docs)
        ELSE <<<<"##", "Table of Contents">>, EmptyLine>> \o TocItems(docs))

Artifact(kindOf, filename, docs, fileDescription, includeFullContent, version) ==
    [target |-> kindOf, filename |-> filename, version |-> version,
     fullContent |-> includeFullContent,
     lines |-> GenerateLLMFileText(docs, "T", fileDescription, includeFullContent, version)]

\* generateStandardLLMFiles: both artifacts get options.version
StandardArtifacts(contextOptions, docs) ==
    <<Artifact("standard", "llms.txt", docs, Or(contextOptions.description, ""), FALSE,
               contextOptions.version),
      Artifact("standard", "llms-full.txt", docs, Or(contextOptions.description, ""), TRUE,
               contextOptions.version)>>

\* generateCustomLLMFiles: every custom file with documents gets customFile.version
RECURSIVE CustomArtifacts(_, _)
CustomArtifacts(contextOptions, customLLMFiles) ==
    IF customLLMFiles = <<>> THEN <<>>
    ELSE LET c == Head(customLLMFiles)
         IN (IF c.docs = <<>> THEN <<>>
             ELSE <<Artifact("custom", c.filename, c.docs,
                             Or(contextOptions.description, ""), c.fullContent, c.version)>>)
            \o CustomArtifacts(contextOptions, Tail(customLLMFiles))

\* const { ... } = options; pluginContext.options = { ... }: the keys version
\* and keepFrontMatter are not among the ones taken over (a reader of
\* options.keepFrontMatter takes `|| []`).
PluginContextOptions(pluginOptions) ==
    [pluginOptions EXCEPT !.version = Undefined, !.keepFrontMatter = <<>>]

\* The artifacts written for a context.
GenerateArtifacts(via, pluginOptions, contextOptions, docs) ==
    /\ pc = "start"
    /\ llmFile' = [via |-> via, options |-> pluginOptions, context |-> contextOptions,
                   written |-> StandardArtifacts(contextOptions, docs)
                               \o CustomArtifacts(contextOptions,
                                                  contextOptions.customLLMFiles)]
    /\ pc' = "generated"
    /\ UNCHANGED coreVars
    /\ UNCHANGED <<build, markdownFiles, toc, cleaned, partialRun, docUrl>>

Versions == {Undefined, "", "1.0"}
OwnVersions == {Undefined, "", "2.0"}
DocNames == <<"d1", "d2">>
DocLists == {SubSeq(DocNames, 1, n) : n \in 1..2}

VersionedCustomFiles ==
    [filename : {"custom.txt"}, fullContent : BOOLEAN, version : OwnVersions,
     docs : DocLists \cup {<<>>}]

OptionSets ==
    [version : Versions, description : {Undefined, "d"},
     customLLMFiles : SeqsUpTo(VersionedCustomFiles, MaxCustom),
     keepFrontMatter : {<<>>, <<"sidebar_position">>}]

\* The exported generators called with a context of the caller's making.
GenerateDirect ==
    /\ pc = "start"
    /\ \E o \in OptionSets, docs \in DocLists : GenerateArtifacts("direct", o, o, docs)

\* The plugin: docusaurusPluginLLMs(context, options), then postBuild.
GeneratePlugin ==
    /\ pc = "start"
    /\ \E o \in OptionSets, docs \in DocLists :
          GenerateArtifacts("plugin", o, PluginContextOptions(o), docs)

NextVersion == GenerateDirect \/ GeneratePlugin

SpecVersion == Init /\ [][NextVersion]_vars

VersionLines(lines) == {i \in 1..Len(lines) : lines[i] # <<>> /\ lines[i][1] = "Version:"}
DescriptionLine(lines) == CHOOSE i \in 1..Len(lines) : lines[i] # <<>> /\ lines[i][1] = ">"

\* The version line, and no other, stands under the description, one empty
\* line apart.
HasVersionLine(a, version) ==
    LET d == DescriptionLine(a.lines)
    IN /\ a.lines[d + 1] = EmptyLine
       /\ a.lines[d + 2] = <<"Version:", version>>
       /\ VersionLines(a.lines) = {d + 2}

C23_GlobalVersion ==
    (pc = "generated" /\ llmFile.via = "plugin" /\ Truthy(llmFile.options.version)) =>
        \A i \in 1..Len(llmFile.written) :
            LET a == llmFile.written[i]
                own == IF a.target = "custom"
                          THEN (CHOOSE c \in Range(llmFile.options.customLLMFiles) :
                                   c.filename = a.filename).version
                          ELSE Undefined
            IN HasVersionLine(a, Or(own, llmFile.options.version))

----------------------------------------------------------------------------
(* generator.ts: generateIndividualMarkdownFiles, paths and frontmatter at *)
(* character level                                                         *)

\* .replace(/^\/+/, '')
RECURSIVE StripLeadingSlashes(_)
StripLeadingSlashes(str) ==
    IF str # <<>> /\ Head(str) = "/" THEN StripLeadingSlashes(Tail(str)) ELSE str

\* .replace(new RegExp(`^${docsDir}/`), '')
RemoveDocsDir(str, dd) ==
    IF StartsWith(str, dd \o <<"/">>) THEN SubSeq(str, Len(dd) + 2, Len(str)) ELSE str

\* let relativePath = doc.path ... (lines 168-174)
RelativePath(path, dd) == RemoveDocsDir(EnsureMdExtension(StripLeadingSlashes(path)), dd)

\* Position of the last c in str, 0 if there is none.
LastIndexOf(str, c) ==
    IF \E i \in 1..Len(str) : str[i] = c
        THEN CHOOSE i \in 1..Len(str) : str[i] = c /\ \A j \in (i + 1)..Len(str) : str[j] # c
        ELSE 0

\* pathParts = relativePath.split('.'); extension = pathParts.pop() || 'md'
Extension(relativePath) ==
    LET dot == LastIndexOf(relativePath, ".")
        last == SubSeq(relativePath, dot + 1, Len(relativePath))
    IN IF last = <<>> THEN <<"m", "d">> ELSE last

\* basePath = pathParts.join('.')
BasePath(relativePath) ==
    LET dot == LastIndexOf(relativePath, ".")
    IN IF dot = 0 THEN <<>> ELSE SubSeq(relativePath, 1, dot - 1)

\* The value of uniquePath when the counter is n: relativePath itself at
\* first, `${basePath}-${counter}.${extension}` afterwards.
Candidate(relativePath, n) ==
    IF n = 1 THEN relativePath
    ELSE BasePath(relativePath) \o <<"-">> \o NumberToString(n) \o <<".">>
         \o Extension(relativePath)

\* Variant: the used paths are compared as they are written.
RECURSIVE UniquePathExactCase(_, _, _)
UniquePathExactCase(relativePath, usedPaths, counter) ==
    IF Candidate(relativePath, counter) \in usedPaths
        THEN UniquePathExactCase(relativePath, usedPaths, counter + 1)
        ELSE Candidate(relativePath, counter)

\* while (usedPaths.has(uniquePath.toLowerCase())) { counter++; ... }
RECURSIVE UniquePathIgnoreCase(_, _, _)
UniquePathIgnoreCase(relativePath, usedPaths, counter) ==
    IF ToLowerCase(Candidate(relativePath, counter)) \in usedPaths
        THEN UniquePathIgnoreCase(relativePath, usedPaths, counter + 1)
        ELSE Candidate(relativePath, counter)

\* for (const key of keepFrontMatter) if (key in doc.frontMatter) ...
PreservedFrontMatter(frontMatter, keepFrontMatter) ==
    [key \in Range(keepFrontMatter) \cap DOMAIN frontMatter |-> frontMatter[key]]

\* The loop over the docs: the path each file is written to and the
\* frontmatter handed to createMarkdownContent (none when it has no key).
RECURSIVE GenerateIndividualMarkdownFiles(_, _, _, _)
GenerateIndividualMarkdownFiles(docs, dd, keepFrontMatter, usedPaths) ==
    IF docs = <<>> THEN <<>>
    ELSE LET doc == Head(docs)
             uniquePath == UniquePathIgnoreCase(RelativePath(doc.path, dd), usedPaths, 1)
         IN <<[uniquePath |-> uniquePath,
               frontMatter |-> PreservedFrontMatter(doc.frontMatter, keepFrontMatter)]>>
            \o GenerateIndividualMarkdownFiles(Tail(docs), dd, keepFrontMatter,
                   usedPaths \cup {ToLowerCase(uniquePath)})

\* One call; the paths are those from which no file name has to be made up
\* out of the title (relativePath neither empty nor '.md').
MarkdownFilesWritten(via, docs, keepFrontMatter, keepArgument) ==
    /\ pc = "start"
    /\ \A i \in 1..Len(docs) : RelativePath(docs[i].path, <<"d">>) \notin {<<>>, DotMd}
    /\ markdownFiles' =
          [via |-> via, docs |-> docs, keepFrontMatter |-> keepFrontMatter,
           written |-> GenerateIndividualMarkdownFiles(docs, <<"d">>, keepArgument, {})]
    /\ pc' = "markdown"
    /\ UNCHANGED coreVars
    /\ UNCHANGED <<build, llmFile, toc, cleaned, partialRun, docUrl>>

NoFrontMatter == [key \in {} |-> <<>>]

Stems == {<<"a">>, <<"A">>, <<"a", "-", "2">>}
DocPaths ==
    {prefix \o stem \o ext :
        prefix \in {<<>>, <<"d", "/">>}, stem \in Stems, ext \in {DotMd, DotMdx}}

PlainDocs == [path : DocPaths, frontMatter : {NoFrontMatter}]

FrontMatterValue ==
    "slug" :> <<"s">> @@ "id" :> <<"i">> @@ "sidebar_position" :> <<"1">> @@ "tags" :> <<"t">>

FrontMatters == {[key \in keys |-> FrontMatterValue[key]] : keys \in SUBSET DOMAIN FrontMatterValue}

FrontDocs ==
    [path : {<<"d", "/", "g", "/", "a", ".", "m", "d">>, <<"d", "/", "a", ".", "m", "d">>},
     frontMatter : FrontMatters]

KeyLists == {<<>>, <<"sidebar_position">>, <<"tags", "sidebar_position">>}

\* generateIndividualMarkdownFiles called with a document list of the
\* caller's making.
GenerateMarkdownPaths ==
    /\ pc = "start"
    /\ \E docs \in SeqsUpTo(PlainDocs, MaxDocs) :
          docs # <<>> /\ MarkdownFilesWritten("direct", docs, <<>>, <<>>)

GenerateMarkdownFront ==
    /\ pc = "start"
    /\ \E doc \in FrontDocs, keep \in KeyLists :
          MarkdownFilesWritten("direct", <<doc>>, keep, keep)

\* The plugin with generateMarkdownFiles: the generators pass
\* context.options.keepFrontMatter || [].
GenerateMarkdownPlugin ==
    /\ pc = "start"
    /\ \E doc \in FrontDocs, keep \in KeyLists :
          MarkdownFilesWritten("plugin", <<doc>>, keep,
              PluginContextOptions([version |-> Undefined, description |-> Undefined,
                                    customLLMFiles |-> <<>>,
                                    keepFrontMatter |-> keep]).keepFrontMatter)

NextMarkdown == GenerateMarkdownPaths \/ GenerateMarkdownFront \/ GenerateMarkdownPlugin

SpecMarkdown == Init /\ [][NextMarkdown]_vars

WrittenPath(i) == markdownFiles.written[i].uniquePath
Relative(i) == RelativePath(markdownFiles.docs[i].path, <<"d">>)
TakenBefore(i) == {ToLowerCase(WrittenPath(j)) : j \in 1..(i - 1)}

\* The least counter whose candidate no earlier file has, whatever the case.
FirstFree(i) ==
    CHOOSE n \in 1..i :
        /\ ToLowerCase(Candidate(Relative(i), n)) \notin TakenBefore(i)
        /\ \A m \in 1..(n - 1) : ToLowerCase(Candidate(Relative(i), m)) \in TakenBefore(i)

C24_WitnessSuffixTaken ==
    /\ pc = "markdown"
    /\ Len(markdownFiles.written) = 3
    /\ WrittenPath(2) = <<"a", "-", "2", ".", "m", "d">>
    /\ WrittenPath(3) = <<"a", "-", "2", "-", "2", ".", "m", "d">>

DirName(relativePath) == SubSeq(relativePath, 1, LastIndexOf(relativePath, "/"))

\* slug, else id, else the original file name
ExpectedName(doc) ==
    LET rel == RelativePath(doc.path, <<"d">>)
    IN IF "slug" \in DOMAIN doc.frontMatter THEN DirName(rel) \o doc.frontMatter["slug"] \o DotMd
       ELSE IF "id" \in DOMAIN doc.frontMatter THEN DirName(rel) \o doc.frontMatter["id"] \o DotMd
       ELSE rel

\* C25: the standalone file of a document is named after its slug, else
\* after its id, else after its own file name, in the document's directory.
C25_SlugThenId ==
    pc = "markdown" => WrittenPath(1) = ExpectedName(markdownFiles.docs[1])

\* C26: in a plugin run with keepFrontMatter = K every standalone file gets
\* exactly the keys of K that its document defines, with their values, and
\* none when the document defines none of them.
C26_KeptFrontMatter ==
    (pc = "markdown" /\ markdownFiles.via = "plugin") =>
        \A i \in 1..Len(markdownFiles.written) :
            markdownFiles.written[i].frontMatter =
                PreservedFrontMatter(markdownFiles.docs[i].frontMatter,
                                     markdownFiles.keepFrontMatter)

----------------------------------------------------------------------------
(* generator.ts: cleanDescriptionForToc and the list items of links mode, *)
(* descriptions at character level                                         *)

MaxTocLength == 150
TocKeep == 147
Slack == 2
MaxTocDocs == 2

NewLine == "\n"
Ellipsis == <<".", ".", ".">>

\* description.split('\n')[0]
FirstLine(str) ==
    IF \E i \in 1..Len(str) : str[i] = NewLine
        THEN SubSeq(str, 1, (CHOOSE i \in 1..Len(str) :
                                str[i] = NewLine /\ \A j \in 1..(i - 1) : str[j] # NewLine) - 1)
        ELSE str

\* Length of the longest prefix of str made of characters of set.
RECURSIVE Run(_, _)
Run(str, set) == IF str # <<>> /\ Head(str) \in set THEN 1 + Run(Tail(str), set) ELSE 0

\* Characters that \s matches
WhiteSpace == {" ", "\t", "\r"}

\* firstLine.replace(/^(#+)\s+/g, '')
RemoveHeadingMarker(line) ==
    LET hashes == Run(line, {"#"})
        spaces == Run(SubSeq(line, hashes + 1, Len(line)), WhiteSpace)
    IN IF hashes > 0 /\ spaces > 0 THEN SubSeq(line, hashes + spaces + 1, Len(line))
       ELSE line

\* Variant: the ellipsis is added to the first 150 characters.
TruncateLate(cleanedLine) ==
    IF Len(cleanedLine) > MaxTocLength
        THEN SubSeq(cleanedLine, 1, MaxTocLength) \o Ellipsis
        ELSE cleanedLine

\* cleaned.length > 150 ? cleaned.substring(0, 147) + '...' : cleaned
Truncate(cleanedLine) ==
    IF Len(cleanedLine) > MaxTocLength
        THEN SubSeq(cleanedLine, 1, TocKeep) \o Ellipsis
        ELSE cleanedLine

CleanDescriptionForToc(description) ==
    IF description = <<>> THEN <<>>
    ELSE Truncate(RemoveHeadingMarker(FirstLine(description)))

\* `- [${doc.title}](${doc.url})${cleanedDescription ? `: ${cleanedDescription}` : ''}`
TocItem(doc) ==
    LET cleanedDescription == CleanDescriptionForToc(doc.description)
    IN [link |-> <<"- [", doc.title, "](", doc.url, ")">>,
        separator |-> IF cleanedDescription # <<>> THEN ": " ELSE "",
        description |-> cleanedDescription]

\* const tocItems = docs.map(...)
GenerateLLMFileLinks(docs) ==
    /\ pc = "start"
    /\ toc' = [docs |-> docs, tocItems |-> [i \in 1..Len(docs) |-> TocItem(docs[i])]]
    /\ pc' = "links"
    /\ UNCHANGED coreVars
    /\ UNCHANGED <<build, llmFile, markdownFiles, cleaned, partialRun, docUrl>>

\* n characters that tell their position
Body(n) == [i \in 1..n |-> Digit[(i % 10) + 1]]

Markers == {<<>>, <<"#", " ">>, <<"#", "#", " ", "\t">>, <<"#">>, <<" ", "#", " ">>}
BodyLengths == (0..Slack) \cup ((TocKeep - Slack)..(MaxTocLength + Slack))
Descriptions ==
    {marker \o Body(n) \o rest :
        marker \in Markers, n \in BodyLengths, rest \in {<<>>, <<NewLine, "#", " ", "b">>}}
ShortDescriptions == {<<>>, <<"#", " ", "b">>, <<"b", NewLine, "c">>}

TocDocs(descriptions) == [title : {"t"}, url : {"u"}, description : descriptions]

TocDocLists ==
    {<<first>> \o others :
        first \in TocDocs(Descriptions),
        others \in SeqsUpTo(TocDocs(ShortDescriptions), MaxTocDocs - 1)}

Links ==
    /\ pc = "start"
    /\ \E docs \in TocDocLists : GenerateLLMFileLinks(docs)

NextLinks == Links

SpecLinks == Init /\ [][NextLinks]_vars

\* The first line of a description without the heading marker that opens it:
\* h hash signs at its start and all the w >= 1 white-space characters after them.
Marked(line, h, w) ==
    /\ h + w <= Len(line)
    /\ \A i \in 1..h : line[i] = "#"
    /\ \A i \in (h + 1)..(h + w) : line[i] \in WhiteSpace
    /\ h + w < Len(line) => line[h + w + 1] \notin WhiteSpace

Shown(description) ==
    LET line == FirstLine(description)
        marks == {m \in (1..Len(line)) \X (1..Len(line)) : Marked(line, m[1], m[2])}
    IN IF marks = {} THEN line
       ELSE LET m == CHOOSE m \in marks : TRUE
            IN SubSeq(line, m[1] + m[2] + 1, Len(line))

\* C27: links mode has one item per document, in order; the description of
\* an item is the first line of the document's description without its
\* leading heading marker, unchanged when it has at most 150 characters and
\* otherwise its first 147 characters followed by "...", so never more than 150.
C27_TocDescription ==
    pc = "links" =>
        /\ Len(toc.tocItems) = Len(toc.docs)
        /\ \A i \in 1..Len(toc.docs) :
              LET item == toc.tocItems[i]
                  shown == Shown(toc.docs[i].description)
              IN /\ item.link = <<"- [", toc.docs[i].title, "](", toc.docs[i].url, ")">>
                 /\ Len(item.description) <= MaxTocLength
                 /\ Len(shown) <= MaxTocLength => item.description = shown
                 /\ Len(shown) > MaxTocLength =>
                       item.description = SubSeq(shown, 1, TocKeep) \o Ellipsis

\* A first line of 151 characters behind a heading marker, cut to 147 and
\* the ellipsis, next to a document whose line of 150 is shown whole.
C27_Witness ==
    /\ pc = "links"
    /\ Len(toc.docs) = 2
    /\ toc.docs[1].description # <<>>
    /\ Head(toc.docs[1].description) = "#"
    /\ Len(Shown(toc.docs[1].description)) = MaxTocLength + 1
    /\ Len(toc.tocItems[1].description) = MaxTocLength
    /\ toc.tocItems[2].description = <<"b">>

C27_WitnessAtLimit ==
    /\ pc = "links"
    /\ Len(Shown(toc.docs[1].description)) = MaxTocLength
    /\ toc.tocItems[1].description = Shown(toc.docs[1].description)

----------------------------------------------------------------------------
(* utils.ts: cleanMarkdownContent, lines at character level *)

MaxLines == 3

\* Characters that `.` does not match
LineTerminators == {"\n", "\r"}

\* String.prototype.trim
RECURSIVE TrimString(_)
TrimString(str) ==
    IF str = <<>> THEN str
    ELSE IF Head(str) \in WhiteSpace THEN TrimString(Tail(str))
    ELSE IF str[Len(str)] \in WhiteSpace THEN TrimString(SubSeq(str, 1, Len(str) - 1))
    ELSE str

\* currentLine.match(/^\s*(#+)\s+(.+)$/): the level and the text of a heading.
\* \s+ takes as many characters as leave (.+) a non-empty rest of the line
\* without a line terminator.
HeadingMatch(line) ==
    LET indent == Run(line, WhiteSpace)
        level == Run(SubSeq(line, indent + 1, Len(line)), {"#"})
        after == SubSeq(line, indent + level + 1, Len(line))
        gaps == {k \in 1..Run(after, WhiteSpace) :
                    /\ k < Len(after)
                    /\ \A i \in (k + 1)..Len(after) : after[i] \notin LineTerminators}
        gap == CHOOSE k \in gaps : \A other \in gaps : other <= k
    IN IF level > 0 /\ gaps # {}
           THEN [matched |-> TRUE, headingLevel |-> level,
                 headingText |-> TrimString(SubSeq(after, gap + 1, Len(after)))]
           ELSE [matched |-> FALSE, headingLevel |-> 0, headingText |-> <<>>]

\* /^\s*#+\s+/.test(nextLine)
NextLineIsHeading(nextLine) ==
    LET indent == Run(nextLine, WhiteSpace)
        level == Run(SubSeq(nextLine, indent + 1, Len(nextLine)), {"#"})
    IN level > 0 /\ Run(SubSeq(nextLine, indent + level + 1, Len(nextLine)), WhiteSpace) > 0

\* while (i < lines.length && lines[i].trim() === '') { push; i++ }
RECURSIVE EmptyLines(_)
EmptyLines(lines) ==
    IF lines # <<>> /\ TrimString(Head(lines)) = <<>> THEN 1 + EmptyLines(Tail(lines)) ELSE 0

\* The loop of lines 198-233.
RECURSIVE ProcessedLines(_)
ProcessedLines(lines) ==
    IF lines = <<>> THEN <<>>
    ELSE IF HeadingMatch(Head(lines)).matched
        THEN LET headingText == HeadingMatch(Head(lines)).headingText
                 empty == EmptyLines(Tail(lines))
                 rest == SubSeq(lines, empty + 2, Len(lines))
                 redundant ==
                    /\ rest # <<>>
                    /\ TrimString(Head(rest)) = headingText
                    /\ ~NextLineIsHeading(TrimString(Head(rest)))
             IN SubSeq(lines, 1, empty + 1)
                \o ProcessedLines(IF redundant THEN Tail(rest) ELSE rest)
    ELSE <<Head(lines)>> \o ProcessedLines(Tail(lines))

\* .replace(/\r\n/g, '\n'): a line loses the "\r" at its end
WithoutCarriageReturn(line) ==
    IF line # <<>> /\ line[Len(line)] = "\r" THEN SubSeq(line, 1, Len(line) - 1) ELSE line

\* .replace(/\n{3,}/g, '\n\n'): of two or more empty lines in a row one is left
RECURSIVE CollapseEmptyLines(_)
CollapseEmptyLines(lines) ==
    IF Len(lines) < 2 THEN lines
    ELSE IF lines[1] = <<>> /\ lines[2] = <<>> /\ Len(lines) > 2
        THEN CollapseEmptyLines(Tail(lines))
    ELSE <<Head(lines)>> \o CollapseEmptyLines(Tail(lines))

RECURSIVE DropEmptyStart(_)
DropEmptyStart(lines) ==
    IF lines # <<>> /\ TrimString(Head(lines)) = <<>> THEN DropEmptyStart(Tail(lines))
    ELSE lines

RECURSIVE TrimStartString(_)
TrimStartString(str) ==
    IF str # <<>> /\ Head(str) \in WhiteSpace THEN TrimStartString(Tail(str)) ELSE str

\* .trim() of the whole text
TrimText(lines) ==
    LET front == DropEmptyStart(lines)
        back == Reverse(DropEmptyStart(Reverse(front)))
    IN IF back = <<>> THEN <<>>
       ELSE IF Len(back) = 1 THEN <<TrimString(back[1])>>
       ELSE <<TrimStartString(back[1])>> \o SubSeq(back, 2, Len(back) - 1)
            \o <<Reverse(TrimStartString(Reverse(back[Len(back)])))>>

NormalizeWhitespace(lines) ==
    TrimText(CollapseEmptyLines([i \in 1..Len(lines) |-> WithoutCarriageReturn(lines[i])]))

\* cleanMarkdownContent without import statements to exclude and without HTML
\* tags in the content: the elision, then the normalisation of white space.
CleanMarkdownContent(lines, removeDuplicateHeadings) ==
    /\ pc = "start"
    /\ LET processedLines == IF removeDuplicateHeadings THEN ProcessedLines(lines) ELSE lines
       IN cleaned' = [lines |-> lines, removeDuplicateHeadings |-> removeDuplicateHeadings,
                      processedLines |-> processedLines,
                      result |-> NormalizeWhitespace(processedLines)]
    /\ pc' = "cleaned"
    /\ UNCHANGED coreVars
    /\ UNCHANGED <<build, llmFile, markdownFiles, toc, partialRun, docUrl>>

ContentLines ==
    { <<"#", " ", "a">>, <<"#", "#", " ", "a">>, <<" ", "#", " ", "a", " ">>,
      <<"a">>, <<" ", "a", " ">>, <<"b">>, <<>>, <<" ">>,
      <<"#", " ", "#">>, <<"#">>, <<"#", " ", " ">>, <<"#", " ">>, <<"#", "a">>,
      <<"#", " ", "#", " ", "a">>, <<"#", " ", "a", "\r">> }

Clean ==
    /\ pc = "start"
    /\ \E lines \in SeqsUpTo(ContentLines, MaxLines), removeDuplicateHeadings \in BOOLEAN :
          CleanMarkdownContent(lines, removeDuplicateHeadings)

NextClean == Clean

SpecClean == Init /\ [][NextClean]_vars

IsHeadingLine(i) == HeadingMatch(cleaned.lines[i]).matched

\* Line i repeats the text of a heading before it, with nothing but blank
\* lines between the two, and is not a heading itself.
Redundant(i) ==
    /\ ~IsHeadingLine(i)
    /\ \E h \in 1..(i - 1) :
          /\ IsHeadingLine(h)
          /\ \A j \in (h + 1)..(i - 1) : TrimString(cleaned.lines[j]) = <<>>
          /\ TrimString(cleaned.lines[i]) = HeadingMatch(cleaned.lines[h]).headingText

\* The lines of the input at the positions kept, in their order.
RECURSIVE Kept(_, _)
Kept(i, dropped) ==
    IF i > Len(cleaned.lines) THEN <<>>
    ELSE (IF i \in dropped THEN <<>> ELSE <<cleaned.lines[i]>>) \o Kept(i + 1, dropped)

\* C28: the elision drops only lines that are no headings and repeat, after
\* nothing but blank lines, the text of the heading before them; every
\* heading and every other line stays, in the original order.
C28_OnlyRedundantDropped ==
    pc = "cleaned" =>
        \E dropped \in SUBSET {i \in 1..Len(cleaned.lines) : Redundant(i)} :
            cleaned.processedLines = Kept(1, dropped)

----------------------------------------------------------------------------
(* utils.ts: resolvePartialImports, one step per iteration of its for-of    *)
(* loop.  partialRun holds the locals of one call: the content passed in,   *)
(* the files below the document, the entries of the imports Map that the    *)
(* loop has not visited yet, the resolved text, and reads, the bindings     *)
(* whose partial file readFile was called for.                              *)

\* The body of one iteration: try { readFile; remove the import; replace the
\* usages } catch { warn }.
InlinePartial(text, componentName, importPath, files) ==
    IF files[importPath].readable
        THEN ReplaceJsx(RemoveImport(text, componentName, importPath),
                        componentName, Trim(files[importPath].body))
        ELSE text

\* A variant that looks for imports in the partial that was read.
RemainingImportsRescanned(imports, partial) ==
    IF partial.readable THEN CollectImports(partial.body, Tail(imports))
    ELSE Tail(imports)

\* The iterator of the Map moves to the next entry; the Map was filled from
\* `content` before the loop and nothing is set in it afterwards.
RemainingImports(imports, partial) == Tail(imports)

\* let resolved = content; first pass: collect all imports
ResolveCollect(text, files) ==
    /\ pc = "start"
    /\ partialRun' = [content |-> text, files |-> files,
                      imports |-> CollectImports(text, <<>>),
                      resolved |-> text, reads |-> <<>>]
    /\ pc' = "resolving"
    /\ UNCHANGED coreVars
    /\ UNCHANGED <<build, llmFile, markdownFiles, toc, cleaned, docUrl>>

\* for (const [componentName, importPath] of imports) { ... }
ResolveImport ==
    /\ pc = "resolving"
    /\ partialRun.imports # <<>>
    /\ LET componentName == Head(partialRun.imports).name
           importPath == Head(partialRun.imports).path
       IN partialRun' =
              [partialRun EXCEPT
                  !.reads = Append(@, Head(partialRun.imports)),
                  !.resolved = InlinePartial(@, componentName, importPath,
                                             partialRun.files),
                  !.imports = RemainingImports(@, partialRun.files[importPath])]
    /\ UNCHANGED pc
    /\ UNCHANGED coreVars
    /\ UNCHANGED <<build, llmFile, markdownFiles, toc, cleaned, docUrl>>

\* return resolved
ResolveReturn ==
    /\ pc = "resolving"
    /\ partialRun.imports = <<>>
    /\ pc' = "resolved"
    /\ UNCHANGED partialRun
    /\ UNCHANGED coreVars
    /\ UNCHANGED <<build, llmFile, markdownFiles, toc, cleaned, docUrl>>

\* Documents that import the two partials, one of them also under the name of
\* the other, and use them.
CycleTokens ==
    { ImportLine(NameS, PathS), ImportLine(NameSx, PathSx), ImportLine(NameSx, PathS),
      SelfClosing(NameS), SelfClosing(NameSx), Prose("w") }

\* A partial that imports and uses itself.
SelfImporting(name, path, words) ==
    Readable(<<ImportLine(name, path), SelfClosing(name), Prose(words)>>)

\* A partial that imports and uses the other one.
Importing(name, path) == Readable(<<ImportLine(name, path), SelfClosing(name)>>)

CycleFileSystems ==
    {[path \in PartialPaths |-> IF path = PathS THEN s ELSE sx] :
        s \in {Unreadable, Readable(<<Prose("s")>>),
               SelfImporting(NameS, PathS, "s"), Importing(NameSx, PathSx)},
        sx \in {Unreadable, Readable(<<Prose("sx")>>),
                SelfImporting(NameSx, PathSx, "sx"), Importing(NameS, PathS)}}

ResolveCall ==
    /\ pc = "start"
    /\ \E text \in SeqsUpTo(CycleTokens, MaxTokens), files \in CycleFileSystems :
          ResolveCollect(text, files)

NextCycle == ResolveCall \/ ResolveImport \/ ResolveReturn

\* The loop body awaits readFile, which settles; nothing else suspends the call.
SpecCycle == Init /\ [][NextCycle]_vars /\ WF_vars(ResolveImport \/ ResolveReturn)

CycleBindings == CollectImports(partialRun.content, <<>>)

\* The bindings visited so far and those still to visit are the bindings of
\* the document itself, each read once.
ReadOnce ==
    pc \in {"resolving", "resolved"} =>
        /\ partialRun.reads \o partialRun.imports = CycleBindings
        /\ \A i, j \in 1..Len(partialRun.reads) :
               partialRun.reads[i].name = partialRun.reads[j].name => i = j
        /\ pc = "resolved" =>
               partialRun.resolved =
                   ResolveLoop(partialRun.content, CycleBindings, partialRun.files)

\* C29: partial resolution terminates for every document, also when a
\* partial imports itself or partials import each other in a cycle: the file
\* of each import binding of the document is read at most once, and no
\* binding is taken from content inlined from a partial.
C29_Terminates == []ReadOnce /\ (pc = "resolving" ~> pc = "resolved")

\* A document that imports and uses both partials, which import and use each
\* other, has been resolved: the text still holds an import line and a usage
\* that came from a partial.
C29_Witness ==
    /\ pc = "resolved"
    /\ Len(partialRun.reads) = 2
    /\ partialRun.files[PathS] = Importing(NameSx, PathSx)
    /\ partialRun.files[PathSx] = Importing(NameS, PathS)
    /\ \E i \in 1..Len(partialRun.resolved) : partialRun.resolved[i].t = "import"
    /\ \E i \in 1..Len(partialRun.resolved) : partialRun.resolved[i].t = "self"

----------------------------------------------------------------------------
(* index.ts: siteUrl; processor.ts: the URL of a document.  URLs, routes    *)
(* and paths are sequences of characters.  docUrl holds the inputs of one   *)
(* call of processMarkdownFile and the URL it gives the document.           *)

MaxRoutes == 2

\* siteConfig.url + (baseUrl.endsWith('/') ? baseUrl.slice(0, -1) : baseUrl || '')
SiteUrl(url, baseUrl) ==
    url \o (IF EndsWith(baseUrl, Slash) THEN SubSeq(baseUrl, 1, Len(baseUrl) - 1)
            ELSE baseUrl)

\* The URL parser on a base "scheme://host/path": where the authority ends.
AuthorityEnd(base) ==
    LET start == (CHOOSE i \in 1..Len(base) : base[i] = ":") + 3
    IN IF \E i \in start..Len(base) : base[i] = "/"
           THEN (CHOOSE i \in start..Len(base) :
                     base[i] = "/" /\ \A j \in start..(i - 1) : base[j] # "/") - 1
           ELSE Len(base)

UrlOrigin(base) == SubSeq(base, 1, AuthorityEnd(base))

\* The path of a parsed URL is "/" when none is written.
UrlPathname(base) ==
    IF AuthorityEnd(base) = Len(base) THEN Slash
    ELSE SubSeq(base, AuthorityEnd(base) + 1, Len(base))

\* new URL(reference, base).toString() for a reference without scheme, dot
\* segments, query or fragment: a reference that begins with "/" replaces
\* the path of the base, an empty one keeps it, any other replaces what
\* follows the last "/" of the path of the base.
NewUrl(reference, base) ==
    IF reference = <<>> THEN UrlOrigin(base) \o UrlPathname(base)
    ELSE IF StartsWith(reference, Slash) THEN UrlOrigin(base) \o reference
    ELSE UrlOrigin(base)
         \o SubSeq(UrlPathname(base), 1, LastIndexOf(UrlPathname(base), "/"))
         \o reference

\* .replace(/\.mdx?$/, '')
WithoutMarkdownExtension(str) ==
    IF EndsWith(str, DotMdx) THEN SubSeq(str, 1, Len(str) - 4)
    ELSE IF EndsWith(str, DotMd) THEN SubSeq(str, 1, Len(str) - 3)
    ELSE str

IndexName == <<"i", "n", "d", "e", "x">>

\* .replace(/\/index$/, '')
WithoutIndex(str) ==
    IF EndsWith(str, Slash \o IndexName) THEN SubSeq(str, 1, Len(str) - 6) ELSE str

\* processor.ts 62-75: linkPath
LinkPath(normalizedPath, pathPrefix) ==
    LET linkPathBase == WithoutMarkdownExtension(normalizedPath)
        linkPath == IF EndsWith(linkPathBase, IndexName) THEN WithoutIndex(linkPathBase)
                    ELSE linkPathBase
    IN IF StartsWith(linkPath, pathPrefix \o Slash)
           THEN SubSeq(linkPath, Len(pathPrefix) + 2, Len(linkPath))
       ELSE IF linkPath = pathPrefix THEN <<>>
       ELSE linkPath

\* processor.ts 78-90: the reference handed to new URL
DerivedReference(normalizedPath, pathPrefix, rules) ==
    LET transformedLinkPath == Transformed(LinkPath(normalizedPath, pathPrefix), rules)
        transformedPathPrefix ==
            IF \E i \in 1..Len(rules.ignorePaths) : rules.ignorePaths[i] = pathPrefix
                THEN <<>> ELSE pathPrefix
    IN (IF transformedPathPrefix # <<>> THEN transformedPathPrefix \o Slash ELSE <<>>)
       \o transformedLinkPath

Digits == {"0", "1", "2", "3", "4", "5", "6", "7", "8", "9"}

\* segment.replace(/^\d+-/, '')
RemoveNumberedPrefix(segment) ==
    LET n == Run(segment, Digits)
    IN IF n > 0 /\ Len(segment) > n /\ segment[n + 1] = "-"
           THEN SubSeq(segment, n + 2, Len(segment))
           ELSE segment

\* path.split('/').map(...).join('/')
RemoveNumberedPrefixes(str) ==
    LET segments == SplitPath(str, <<>>)
    IN JoinPath([i \in 1..Len(segments) |-> RemoveNumberedPrefix(segments[i])])

\* processor.ts 269-281: the paths with the prefix of one segment removed
RECURSIVE ModifiedPaths(_, _, _)
ModifiedPaths(segments, i, pathPrefix) ==
    IF i > Len(segments) THEN <<>>
    ELSE LET modifiedPath ==
                 JoinPath([segments EXCEPT ![i] = RemoveNumberedPrefix(@)])
         IN <<Slash \o pathPrefix \o Slash \o modifiedPath, Slash \o modifiedPath>>
            \o ModifiedPaths(segments, i + 1, pathPrefix)

\* processor.ts 261-281
PossiblePaths(relativePath, pathPrefix) ==
    LET cleanPath == RemoveNumberedPrefixes(relativePath)
        segments == SplitPath(relativePath, <<>>)
    IN << Slash \o pathPrefix \o Slash \o cleanPath,
          Slash \o cleanPath,
          Slash \o pathPrefix \o Slash \o relativePath,
          Slash \o relativePath >>
       \o (IF Len(segments) > 1 THEN ModifiedPaths(segments, 1, pathPrefix) ELSE <<>>)

\* routesPaths.find(...) of processor.ts 294-299
RouteMatches(routePath, cleanPath, pathPrefix) ==
    LET normalizedCleanPath == ToLowerCase(cleanPath)
        normalizedRoute == ToLowerCase(routePath)
    IN \/ EndsWith(normalizedRoute, Slash \o normalizedCleanPath)
       \/ normalizedRoute = Slash \o pathPrefix \o Slash \o normalizedCleanPath
       \/ normalizedRoute = Slash \o normalizedCleanPath

\* The first element of seq that is in set, <<>> if there is none.
FirstIn(seq, set) ==
    IF \E i \in 1..Len(seq) : seq[i] \in set
        THEN seq[CHOOSE i \in 1..Len(seq) :
                     seq[i] \in set /\ \A j \in 1..(i - 1) : seq[j] \notin set]
        ELSE <<>>

\* processor.ts 253-312: resolvedUrl; <<>> stands for undefined.  The keys of
\* routeMap are the non-empty paths of the routes (index.ts 111-116), and
\* routesPaths lists the same routes.
ResolvedUrl(normalizedPath, pathPrefix, hasRoutes, routes) ==
    LET relativePath == WithoutIndex(WithoutMarkdownExtension(normalizedPath))
        cleanPath == RemoveNumberedPrefixes(relativePath)
        routeMap == {routes[i] : i \in 1..Len(routes)} \ {<<>>}
        matching == {routes[i] : i \in {j \in 1..Len(routes) :
                                           RouteMatches(routes[j], cleanPath, pathPrefix)}}
        fromMap == FirstIn(PossiblePaths(relativePath, pathPrefix), routeMap)
    IN IF ~hasRoutes THEN <<>>
       ELSE IF fromMap # <<>> THEN fromMap
       ELSE FirstIn(routes, matching)

\* processor.ts 54-92: fullUrl
FullUrl(normalizedPath, pathPrefix, rules, siteUrl, resolvedUrl) ==
    IF resolvedUrl # <<>> THEN NewUrl(resolvedUrl, siteUrl)
    ELSE NewUrl(DerivedReference(normalizedPath, pathPrefix, rules), siteUrl)

DocsPrefix == <<"d", "o", "c", "s">>
BlogPrefix == <<"b", "l", "o", "g">>

\* processor.ts 247-250 with 319-328: one document of the run.  The paths are
\* relative to siteDir, so a path below siteDir/blog begins with "blog".
ProcessMarkdownFileUrl(url, baseUrl, normalizedPath, rules, hasRoutes, routes) ==
    /\ pc = "start"
    /\ LET siteUrl == SiteUrl(url, baseUrl)
           pathPrefix == IF StartsWith(normalizedPath, BlogPrefix) THEN BlogPrefix
                         ELSE DocsPrefix
           resolvedUrl == ResolvedUrl(normalizedPath, pathPrefix, hasRoutes, routes)
       IN docUrl' = [url |-> url, baseUrl |-> baseUrl, siteUrl |-> siteUrl,
                     path |-> normalizedPath, pathTransformation |-> rules,
                     hasRoutes |-> hasRoutes, routes |-> routes,
                     resolvedUrl |-> resolvedUrl,
                     fullUrl |-> FullUrl(normalizedPath, pathPrefix, rules, siteUrl,
                                         resolvedUrl)]
    /\ pc' = "url"
    /\ UNCHANGED coreVars
    /\ UNCHANGED <<build, llmFile, markdownFiles, toc, cleaned, partialRun>>

\* A site at "h://e", at its root or below "/b/".
SiteOrigin == <<"h", ":", "/", "/", "e">>
BaseB == <<"/", "b", "/">>
BaseUrls == {Slash, BaseB}

SegNumbered == <<"1", "-", "a">>

\* Paths of documents relative to the site directory.
SitePaths ==
    { JoinPath(<<DocsPrefix, SegA>>) \o DotMd,
      JoinPath(<<DocsPrefix, IndexName>>) \o DotMd,
      JoinPath(<<DocsPrefix, SegX, IndexName>>) \o DotMdx,
      JoinPath(<<DocsPrefix, SegX, SegNumbered>>) \o DotMd,
      JoinPath(<<BlogPrefix, SegA>>) \o DotMd }

\* The routes of the host begin with its baseUrl.
RoutePaths(baseUrl) ==
    { baseUrl } \cup
    { baseUrl \o JoinPath(segs) :
        segs \in {<<DocsPrefix, SegA>>, <<DocsPrefix>>, <<DocsPrefix, SegX>>,
                  <<DocsPrefix, SegX, SegA>>, <<SegA>>, <<BlogPrefix, SegA>>} }

UrlRules ==
    {[ignorePaths |-> ign, addPaths |-> add] :
        ign \in {<<>>, <<DocsPrefix>>}, add \in {<<>>, <<SegX>>}}

ProcessUrl ==
    /\ pc = "start"
    /\ \E baseUrl \in BaseUrls, normalizedPath \in SitePaths, rules \in UrlRules,
          hasRoutes \in BOOLEAN :
          \E routes \in SeqsUpTo(RoutePaths(baseUrl), MaxRoutes) :
              /\ ~hasRoutes => routes = <<>>
              /\ ProcessMarkdownFileUrl(SiteOrigin, baseUrl, normalizedPath, rules,
                                        hasRoutes, routes)

NextUrl == ProcessUrl

SpecUrl == Init /\ [][NextUrl]_vars

\* str is prefix itself or prefix followed by "/" and more.
BeginsWithPath(str, prefix) == StartsWith(str, prefix) /\ SegmentEnds(str, Len(prefix))

\* C30: the URL of every document is absolute and begins with the site URL
\* including its base path (siteConfig.url followed by baseUrl), when it is
\* derived from the file path and when it comes from a route of the host.
C30_UrlBelowSite ==
    pc = "url" =>
        BeginsWithPath(docUrl.fullUrl, SiteUrl(docUrl.url, docUrl.baseUrl))

====
